---- MODULE Spec2Model ----
(***************************************************************************)
(* A model of the copy-on-write B+tree, its free list and the KV pager of  *)
(* database-from-scratch.                                                  *)
(*                                                                         *)
(* A byte string is a sequence of runs [b |-> byte, n |-> count]; the      *)
(* empty string is << >>.  A 64-bit pointer is the tuple of its four       *)
(* 16-bit words, least significant first.  A page buffer is its decoded    *)
(* header, pointer array and offset array followed by the bytes of the     *)
(* rest of the buffer, in which a well-formed KV pair is kept as one item. *)
(* Every read and write is defined on the bytes: an access that leaves its *)
(* array lands in the bytes that follow it, as it does in the Go slices.   *)
(***************************************************************************)
EXTENDS Integers, Sequences, FiniteSets, TLC

VARIABLES c, obs, kv, file, fl

vars == <<c, obs, kv, file, fl>>

----------------------------------------------------------------------------
(* Program constants *)

HEADER == 4

BTREE_PAGE_SIZE == 4096

BTREE_MAX_KEY_SIZE == 1000

BTREE_MAX_VAL_SIZE == 3000

BNODE_NODE == 1

BNODE_LEAF == 2

BNODE_FREE_LIST == 3

FREE_LIST_HEADER == 4 + 8 + 8

FREE_LIST_CAP == (BTREE_PAGE_SIZE - FREE_LIST_HEADER) \div 8

(* Bounds of the model *)

NumKeyBytes == 2

MaxOps == 3

----------------------------------------------------------------------------
(* Byte strings *)

U16(x) == x % 65536

\* a value bound to a name, as a Go local is: v is computed once
Bind(v, F(_)) == F(v)

Lesser(a, b) == IF a < b THEN a ELSE b

Run(b, n) == [b |-> b, n |-> n]

Empty == << >>

Bytes(b, n) == IF n = 0 THEN << >> ELSE <<Run(b, n)>>

\* a KV pair as it lies in a page: klen, vlen, key, val
Entry(key, val) == [b |-> -1, n |-> 0, key |-> key, val |-> val]

IsKV(it) == it.b < 0

RECURSIVE sizeFrom(_, _)
\* the number of bytes of the items s[i..]
sizeFrom(s, i) ==
    IF i > Len(s) THEN 0
    ELSE IF IsKV(s[i]) THEN 4 + sizeFrom(s[i].key, 1) + sizeFrom(s[i].val, 1)
                            + sizeFrom(s, i + 1)
    ELSE s[i].n + sizeFrom(s, i + 1)

\* len(s)
BLen(s) == sizeFrom(s, 1)

ISize(it) == sizeFrom(<<it>>, 1)

RECURSIVE compareFrom(_, _, _, _, _, _)
\* bytes.Compare of x from byte xo of run i with y from byte yo of run j
compareFrom(x, i, xo, y, j, yo) ==
    IF i > Len(x) /\ j > Len(y) THEN 0
    ELSE IF i > Len(x) THEN -1
    ELSE IF j > Len(y) THEN 1
    ELSE IF x[i].b < y[j].b THEN -1
    ELSE IF x[i].b > y[j].b THEN 1
    ELSE IF x[i].n - xo = y[j].n - yo THEN compareFrom(x, i + 1, 0, y, j + 1, 0)
    ELSE IF x[i].n - xo < y[j].n - yo
    THEN compareFrom(x, i + 1, 0, y, j, yo + (x[i].n - xo))
    ELSE compareFrom(x, i, xo + (y[j].n - yo), y, j + 1, 0)

\* bytes.Compare
Compare(x, y) == compareFrom(x, 1, 0, y, 1, 0)

\* bytes.Equal
Equal(x, y) == Compare(x, y) = 0

\* the two bytes of a 16-bit word, little endian
WordBytes(w) == <<Run(w % 256, 1), Run(w \div 256, 1)>>

RECURSIVE byteAt(_, _, _)
\* byte k of the runs s[i..]
byteAt(s, i, k) == IF k < s[i].n THEN s[i].b ELSE byteAt(s, i + 1, k - s[i].n)

\* binary.LittleEndian.Uint16 of a string of at least two bytes
LE16(s) == byteAt(s, 1, 0) + 256 * byteAt(s, 1, 1)

RECURSIVE normFrom(_, _, _)
\* the items s[i..] appended to acc: empty runs dropped, equal runs joined
normFrom(s, i, acc) ==
    IF i > Len(s) THEN acc
    ELSE IF IsKV(s[i]) THEN normFrom(s, i + 1, Append(acc, s[i]))
    ELSE IF s[i].n = 0 THEN normFrom(s, i + 1, acc)
    ELSE IF Len(acc) > 0 /\ acc[Len(acc)].b = s[i].b
    THEN normFrom(s, i + 1, [acc EXCEPT ![Len(acc)].n = @ + s[i].n])
    ELSE normFrom(s, i + 1, Append(acc, s[i]))

Norm(s) == normFrom(s, 1, << >>)

\* the bytes of one item
Explode(it) ==
    IF IsKV(it)
    THEN WordBytes(U16(BLen(it.key))) \o WordBytes(U16(BLen(it.val)))
         \o it.key \o it.val
    ELSE <<it>>

RECURSIVE explodeFrom(_, _)
explodeFrom(s, i) ==
    IF i > Len(s) THEN << >> ELSE Explode(s[i]) \o explodeFrom(s, i + 1)

\* the bytes of a sequence of items, as runs
Flat(s) == Norm(explodeFrom(s, 1))

RECURSIVE sliceFrom(_, _, _, _)
\* the n bytes from byte o of the items s[i..]; an item wholly inside the
\* range is kept whole
sliceFrom(s, i, o, n) ==
    IF n <= 0 \/ i > Len(s) THEN << >>
    ELSE Bind(ISize(s[i]), LAMBDA z :
      IF o >= z THEN sliceFrom(s, i + 1, o - z, n)
      ELSE IF o = 0 /\ n >= z THEN <<s[i]>> \o sliceFrom(s, i + 1, 0, n - z)
      ELSE IF IsKV(s[i])
      THEN sliceFrom(Explode(s[i]) \o SubSeq(s, i + 1, Len(s)), 1, o, n)
      ELSE <<Run(s[i].b, Lesser(n, z - o))>>
           \o sliceFrom(s, i + 1, 0, n - Lesser(n, z - o)))

\* s[o : o+n]
Slice(s, o, n) == Norm(sliceFrom(s, 1, o, n))

\* copy(s[o:][:w], items): the first w bytes of items written at byte o
Splice(s, o, items, w) ==
    Norm(sliceFrom(s, 1, 0, o) \o sliceFrom(items, 1, 0, w)
         \o sliceFrom(s, 1, o + w, BLen(s) - (o + w)))

RECURSIVE itemAt(_, _, _)
\* the index of the KV item that starts at byte o of s[i..], or 0
itemAt(s, i, o) ==
    IF i > Len(s) THEN 0
    ELSE IF o = 0 THEN (IF IsKV(s[i]) THEN i ELSE 0)
    ELSE IF ISize(s[i]) > o THEN 0
    ELSE itemAt(s, i + 1, o - ISize(s[i]))

----------------------------------------------------------------------------
(* BNode: the page codec *)

ZeroPtr == <<0, 0, 0, 0>>

\* BNode{data: make([]byte, cap)}
NewBuf(cap) ==
    [btype |-> 0, nkeys |-> 0, len |-> cap, cap |-> cap, ptrs |-> << >>,
     offs |-> << >>, kv |-> IF cap > HEADER THEN Bytes(0, cap - HEADER) ELSE << >>,
     panic |-> FALSE, oob |-> FALSE]

\* BNode{}: no data at all
NilNode == NewBuf(0)

PanicNode == [NewBuf(0) EXCEPT !.panic = TRUE]

btype(node) == node.btype

nkeys(node) == node.nkeys

\* the first byte after the pointer and offset arrays
KvBase(node) == HEADER + 8 * node.nkeys + 2 * node.nkeys

RECURSIVE ptrImage(_, _)
ptrImage(ptrs, i) ==
    IF i > Len(ptrs) THEN << >>
    ELSE WordBytes(ptrs[i][1]) \o WordBytes(ptrs[i][2]) \o WordBytes(ptrs[i][3])
         \o WordBytes(ptrs[i][4]) \o ptrImage(ptrs, i + 1)

RECURSIVE offImage(_, _)
offImage(offs, i) ==
    IF i > Len(offs) THEN << >> ELSE WordBytes(offs[i]) \o offImage(offs, i + 1)

\* node.data[:cap]
Image(node) ==
    Norm(WordBytes(node.btype) \o WordBytes(node.nkeys) \o ptrImage(node.ptrs, 1)
         \o offImage(node.offs, 1) \o explodeFrom(node.kv, 1))

\* node.data[p : p+n], n bytes inside the buffer
rdBytes(node, p, n) ==
    Slice(IF p >= KvBase(node) THEN node.kv ELSE Image(node),
          IF p >= KvBase(node) THEN p - KvBase(node) ELSE p, n)

\* copy(node.data[p:], items): what does not fit in len(node.data) is dropped.
\* The code writes byte strings behind the arrays only.
wrBytes(node, p, items) ==
    IF p < KvBase(node) THEN [node EXCEPT !.oob = TRUE]
    ELSE [node EXCEPT !.kv = Splice(@, p - KvBase(node), items,
                                    Lesser(BLen(items), node.len - p))]

\* binary.LittleEndian.Uint16(node.data[p:]), two bytes inside the buffer
rd16(node, p) ==
    IF p >= KvBase(node) \/ p % 2 = 1 \/ p < HEADER THEN LE16(rdBytes(node, p, 2))
    ELSE IF p >= HEADER + 8 * node.nkeys
    THEN node.offs[(p - (HEADER + 8 * node.nkeys)) \div 2 + 1]
    ELSE node.ptrs[(p - HEADER) \div 8 + 1][((p - HEADER) % 8) \div 2 + 1]

\* binary.LittleEndian.PutUint16(node.data[p:], w), two bytes inside the buffer
wr16(node, p, w) ==
    IF p >= KvBase(node) \/ p % 2 = 1 \/ p < HEADER
    THEN wrBytes(node, p, WordBytes(w))
    ELSE IF p >= HEADER + 8 * node.nkeys
    THEN [node EXCEPT !.offs[(p - (HEADER + 8 * node.nkeys)) \div 2 + 1] = w]
    ELSE [node EXCEPT
           !.ptrs[(p - HEADER) \div 8 + 1][((p - HEADER) % 8) \div 2 + 1] = w]

\* setHeader, on the zeroed buffers the code calls it on: the arrays of the
\* new header read as zero
setHeader(node, t, n) ==
    IF node.len < HEADER THEN [node EXCEPT !.panic = TRUE]
    ELSE IF HEADER + 10 * n > node.cap \/ Image(node) # Bytes(0, node.cap)
    THEN [node EXCEPT !.oob = TRUE]
    ELSE [node EXCEPT !.btype = t, !.nkeys = n,
                      !.ptrs = [i \in 1..n |-> ZeroPtr],
                      !.offs = [i \in 1..n |-> 0],
                      !.kv = Bytes(0, node.cap - (HEADER + 10 * n))]

\* binary.LittleEndian.Uint64 and PutUint64 need 8 bytes of node.data[pos:]
ptrOk(node, idx) == U16(HEADER + 8 * idx) + 8 <= node.len

getPtr(node, idx) ==
    IF idx < node.nkeys THEN node.ptrs[idx + 1]
    ELSE [j \in 1..4 |-> rd16(node, U16(HEADER + 8 * idx) + 2 * (j - 1))]

RECURSIVE putWords(_, _, _, _)
\* the words val[j..] of a pointer written at pos
putWords(node, pos, val, j) ==
    IF j > 4 THEN node
    ELSE Bind(wr16(node, pos + 2 * (j - 1), val[j]), LAMBDA n1 :
           putWords(n1, pos, val, j + 1))

setPtr(node, idx, val) ==
    IF node.panic \/ node.oob THEN node
    ELSE IF ~ptrOk(node, idx) THEN [node EXCEPT !.panic = TRUE]
    ELSE IF idx < node.nkeys THEN [node EXCEPT !.ptrs[idx + 1] = val]
    ELSE putWords(node, U16(HEADER + 8 * idx), val, 1)

offsetPos(node, idx) == U16(HEADER + 8 * node.nkeys + 2 * (idx + 65536 - 1))

offsetOk(node, idx) == idx = 0 \/ offsetPos(node, idx) + 2 <= node.len

getOffset(node, idx) ==
    IF idx = 0 THEN 0
    ELSE IF idx <= node.nkeys THEN node.offs[idx]
    ELSE rd16(node, offsetPos(node, idx))

setOffset(node, idx, offset) ==
    IF node.panic \/ node.oob THEN node
    ELSE IF offsetPos(node, idx) + 2 > node.len THEN [node EXCEPT !.panic = TRUE]
    ELSE IF idx >= 1 /\ idx <= node.nkeys THEN [node EXCEPT !.offs[idx] = offset]
    ELSE wr16(node, offsetPos(node, idx), offset)

kvPos(node, idx) ==
    U16(HEADER + 8 * node.nkeys + 2 * node.nkeys + getOffset(node, idx))

\* the index of the KV item that lies at byte pos of the buffer, or 0
kvItem(node, pos) ==
    IF pos >= KvBase(node) THEN itemAt(node.kv, 1, pos - KvBase(node)) ELSE 0

\* getKey: klen is read at pos, the key is node.data[pos+4:][:klen]
getKeyOk(node, idx) ==
    /\ offsetOk(node, idx)
    /\ Bind(kvPos(node, idx), LAMBDA pos :
         /\ pos + 2 <= node.len
         /\ U16(pos + 4) <= node.len
         /\ U16(pos + 4) + rd16(node, pos) <= node.cap)

getKey(node, idx) ==
    Bind(kvPos(node, idx), LAMBDA pos :
    Bind(kvItem(node, pos), LAMBDA it :
      IF it > 0 THEN node.kv[it].key
      ELSE Flat(rdBytes(node, U16(pos + 4), rd16(node, pos)))))

\* getVal: klen and vlen are read, the value is node.data[pos+4+klen:][:vlen]
getValOk(node, idx) ==
    /\ offsetOk(node, idx)
    /\ Bind(kvPos(node, idx), LAMBDA pos :
         /\ pos + 2 <= node.len
         /\ U16(pos + 2) + 2 <= node.len
         /\ Bind(<<rd16(node, pos), rd16(node, U16(pos + 2))>>, LAMBDA l :
              /\ U16(pos + 4 + l[1]) <= node.len
              /\ U16(pos + 4 + l[1]) + l[2] <= node.cap))

getVal(node, idx) ==
    Bind(kvPos(node, idx), LAMBDA pos :
    Bind(kvItem(node, pos), LAMBDA it :
      IF it > 0 THEN node.kv[it].val
      ELSE Bind(<<rd16(node, pos), rd16(node, U16(pos + 2))>>, LAMBDA l :
             Flat(rdBytes(node, U16(pos + 4 + l[1]), l[2])))))

\* node size in bytes
nbytes(node) == kvPos(node, node.nkeys)

----------------------------------------------------------------------------
(* Node algorithms.  An operator that builds a node returns it with        *)
(* panic = TRUE when the Go code panics on the way.                        *)

RECURSIVE lookupLoop(_, _, _, _)
\* the loop of nodeLookupLE from index i on; -1 when getKey panics
lookupLoop(node, key, i, found) ==
    IF i >= node.nkeys THEN found
    ELSE IF ~getKeyOk(node, i) THEN -1
    ELSE Bind(Compare(getKey(node, i), key), LAMBDA cmp :
           IF cmp = 0 THEN i
           ELSE IF cmp > 0 THEN found
           ELSE lookupLoop(node, key, i + 1, i))

\* the lookup with the key at index 0 compared as well
nodeLookupLEFromZero(node, key) == lookupLoop(node, key, 0, 0)

nodeLookupLE(node, key) == lookupLoop(node, key, 1, 0)

RECURSIVE copyPtrs(_, _, _, _, _, _)
\* the pointer loop of nodeAppendRange from i on
copyPtrs(new, old, dstNew, srcOld, n, i) ==
    IF i >= n \/ new.panic \/ new.oob THEN new
    ELSE Bind(setPtr(new, U16(dstNew + i), getPtr(old, U16(srcOld + i))),
              LAMBDA n1 : copyPtrs(n1, old, dstNew, srcOld, n, i + 1))

RECURSIVE copyOffsets(_, _, _, _, _, _, _, _)
\* the offset loop of nodeAppendRange from i on
copyOffsets(new, old, dstNew, srcOld, n, dstBegin, srcBegin, i) ==
    IF i > n \/ new.panic \/ new.oob THEN new
    ELSE IF ~offsetOk(old, U16(srcOld + i)) THEN [new EXCEPT !.panic = TRUE]
    ELSE Bind(setOffset(new, U16(dstNew + i),
                        U16(dstBegin + getOffset(old, U16(srcOld + i))
                            + 65536 - srcBegin)),
              LAMBDA n1 : copyOffsets(n1, old, dstNew, srcOld, n, dstBegin,
                                      srcBegin, i + 1))

\* the last statement of nodeAppendRange:
\* copy(new.data[new.kvPos(dstNew):], old.data[begin:end])
copyKVs(new, old, pos, begin, end) ==
    IF new.panic \/ new.oob THEN new
    ELSE IF begin > end \/ end > old.cap \/ pos > new.len
    THEN [new EXCEPT !.panic = TRUE]
    ELSE wrBytes(new, pos, rdBytes(old, begin, end - begin))

\* copy multiple KVs into the position.  The pointer loop leaves a buffer,
\* and panics, exactly when its last index does.
nodeAppendRange(new, old, dstNew, srcOld, n) ==
    IF new.panic \/ old.panic THEN [new EXCEPT !.panic = TRUE]
    ELSE IF new.oob \/ old.oob THEN [new EXCEPT !.oob = TRUE]
    ELSE IF n = 0 THEN new
    ELSE IF HEADER + 8 * (srcOld + n) > old.len \/ HEADER + 8 * (dstNew + n) > new.len
    THEN [new EXCEPT !.panic = TRUE]
    ELSE Bind(copyPtrs(new, old, dstNew, srcOld, n, 0), LAMBDA n1 :
           IF n1.panic \/ n1.oob THEN n1
           ELSE IF ~offsetOk(n1, dstNew) \/ ~offsetOk(old, srcOld)
           THEN [n1 EXCEPT !.panic = TRUE]
           ELSE Bind(copyOffsets(n1, old, dstNew, srcOld, n, getOffset(n1, dstNew),
                                 getOffset(old, srcOld), 1),
                     LAMBDA n2 :
                  copyKVs(n2, old, kvPos(n2, dstNew), kvPos(old, srcOld),
                          kvPos(old, U16(srcOld + n)))))

\* copy a KV into the position
nodeAppendKV(new, idx, ptr, key, val) ==
    Bind(setPtr(new, idx, ptr), LAMBDA n1 :
      IF n1.panic \/ n1.oob THEN n1
      ELSE IF ~offsetOk(n1, idx) THEN [n1 EXCEPT !.panic = TRUE]
      ELSE Bind(kvPos(n1, idx), LAMBDA pos :
        IF pos + 4 + BLen(key) >= 65536 THEN [n1 EXCEPT !.oob = TRUE]
        ELSE IF pos + 4 + BLen(key) > n1.len THEN [n1 EXCEPT !.panic = TRUE]
        ELSE Bind(wrBytes(n1, pos, <<Entry(key, val)>>), LAMBDA n2 :
               setOffset(n2, U16(idx + 1),
                         U16(getOffset(n2, idx) + 4 + U16(BLen(key) + BLen(val)))))))

\* leafInsert with the entries after idx copied from idx + 1 on
leafInsertSkipsOne(new, old, idx, key, val) ==
    Bind(setHeader(new, BNODE_LEAF, U16(old.nkeys + 1)), LAMBDA n1 :
    Bind(nodeAppendRange(n1, old, 0, 0, idx), LAMBDA n2 :
    Bind(nodeAppendKV(n2, idx, ZeroPtr, key, val), LAMBDA n3 :
      nodeAppendRange(n3, old, idx + 1, idx + 1, U16(old.nkeys + 65536 - idx)))))

\* add a new key to a leaf node
leafInsert(new, old, idx, key, val) ==
    Bind(setHeader(new, BNODE_LEAF, U16(old.nkeys + 1)), LAMBDA n1 :
    Bind(nodeAppendRange(n1, old, 0, 0, idx), LAMBDA n2 :
    Bind(nodeAppendKV(n2, idx, ZeroPtr, key, val), LAMBDA n3 :
      nodeAppendRange(n3, old, idx + 1, idx, U16(old.nkeys + 65536 - idx)))))

leafUpdate(new, old, idx, key, val) ==
    Bind(setHeader(new, BNODE_LEAF, old.nkeys), LAMBDA n1 :
    Bind(nodeAppendRange(n1, old, 0, 0, idx), LAMBDA n2 :
    Bind(nodeAppendKV(n2, idx, ZeroPtr, key, val), LAMBDA n3 :
      nodeAppendRange(n3, old, idx + 1, idx + 1,
                      U16(old.nkeys + 65536 - (idx + 1))))))

\* remove a key from a leaf node
leafDelete(new, old, idx) ==
    Bind(setHeader(new, BNODE_LEAF, U16(old.nkeys + 65536 - 1)), LAMBDA n1 :
    Bind(nodeAppendRange(n1, old, 0, 0, idx), LAMBDA n2 :
      nodeAppendRange(n2, old, idx, idx + 1, U16(old.nkeys + 65536 - (idx + 1)))))

\* merge 2 nodes into 1
nodeMerge(new, left, right) ==
    Bind(setHeader(new, left.btype, U16(left.nkeys + right.nkeys)), LAMBDA n1 :
    Bind(nodeAppendRange(n1, left, 0, 0, left.nkeys), LAMBDA n2 :
      nodeAppendRange(n2, right, left.nkeys, 0, right.nkeys)))

nodeReplace2Kid(new, node, idx, u2, b) ==
    Bind(setHeader(new, BNODE_NODE, U16(node.nkeys + 65536 - 1)), LAMBDA n1 :
    Bind(nodeAppendRange(n1, node, 0, 0, idx), LAMBDA n2 :
    Bind(nodeAppendKV(n2, idx, u2, b, Empty), LAMBDA n3 :
      nodeAppendRange(n3, node, idx + 1, idx + 1,
                      U16(node.nkeys + 65536 - (idx + 1))))))

RECURSIVE split2Loop(_, _)
\* the loop of nodeSplit2: the split index, or -1 for its panic
split2Loop(old, tryIdx) ==
    IF tryIdx < 0 THEN -1
    ELSE Bind(U16(nbytes(old) + 65536 - kvPos(old, tryIdx)), LAMBDA rightSize :
           IF rightSize <= BTREE_PAGE_SIZE
           THEN IF tryIdx = 1 THEN tryIdx
                ELSE IF rightSize = BTREE_PAGE_SIZE THEN tryIdx
                ELSE split2Loop(old, tryIdx - 1)
           ELSE IF tryIdx + 1 = old.nkeys THEN -1 ELSE tryIdx + 1)

\* split a bigger-than-allowed node into two
nodeSplit2(left, right, old) ==
    Bind(split2Loop(old, old.nkeys - 1), LAMBDA splitIdx :
      IF splitIdx < 0
      THEN [left |-> PanicNode, right |-> PanicNode]
      ELSE [left |-> nodeAppendRange(setHeader(left, old.btype, splitIdx),
                                     old, 0, 0, splitIdx),
            right |-> nodeAppendRange(setHeader(right, old.btype,
                                                old.nkeys - splitIdx),
                                      old, 0, splitIdx, old.nkeys - splitIdx)])

\* split a node if it's too big. the results are 1~3 nodes.
nodeSplit3(old) ==
    IF old.panic \/ old.oob THEN <<old>>
    ELSE IF nbytes(old) <= BTREE_PAGE_SIZE
    THEN IF old.cap < BTREE_PAGE_SIZE THEN <<PanicNode>>
         ELSE <<[old EXCEPT !.len = BTREE_PAGE_SIZE]>>
    ELSE Bind(nodeSplit2(NewBuf(2 * BTREE_PAGE_SIZE), NewBuf(BTREE_PAGE_SIZE), old),
         LAMBDA s :
           IF s.left.panic \/ s.right.panic THEN <<PanicNode>>
           ELSE IF nbytes(s.left) <= BTREE_PAGE_SIZE
           THEN <<[s.left EXCEPT !.len = BTREE_PAGE_SIZE], s.right>>
           ELSE Bind(nodeSplit2(NewBuf(BTREE_PAGE_SIZE), NewBuf(BTREE_PAGE_SIZE),
                                s.left),
                LAMBDA t :
                  IF t.left.panic \/ t.right.panic THEN <<PanicNode>>
                  ELSE <<t.left, t.right, s.right>>))

----------------------------------------------------------------------------
(* The page store behind the tree's callbacks.  A store `st` carries the   *)
(* tree (root) and the pages; kind "C" is the in-memory store of the       *)
(* tests.  The flags record what the callbacks' assertions saw.            *)

Min(S) == CHOOSE x \in S : \A y \in S : x <= y

Max(S) == CHOOSE x \in S : \A y \in S : x >= y

Panicked(st) == [st EXCEPT !.panic = TRUE]

\* a node with the store it came from: the store takes over its flags
Ret(st, node) ==
    [st |-> [st EXCEPT !.panic = @ \/ node.panic, !.oob = @ \/ node.oob],
     node |-> node]

PanicRet(st) == [st |-> Panicked(st), node |-> PanicNode]

\* the address of the k-th buffer of a heap that starts at `heap`: buffers
\* lie a span (2 pages) apart
Slot(heap, k) ==
    <<(heap[1] + 2 * BTREE_PAGE_SIZE * k) % 65536,
      U16(heap[2] + (heap[1] + 2 * BTREE_PAGE_SIZE * k) \div 65536),
      heap[3], heap[4]>>

\* uint64(uintptr(unsafe.Pointer(&node.data[0]))) of a fresh buffer: the
\* first address that is none of the live pages and none of the buffers the
\* running operation still holds
FreshPtr(st) ==
    Slot(st.heap,
         Min({k \in 0..Cardinality(DOMAIN st.pages \cup st.dead) :
                Slot(st.heap, k) \notin DOMAIN st.pages \cup st.dead}))

\* C.tree.get
CGet(st, ptr) ==
    IF ptr \in DOMAIN st.pages
    THEN [st |-> st, node |-> st.pages[ptr]]
    ELSE [st |-> [st EXCEPT !.badGet = TRUE], node |-> NilNode]

\* C.tree.new
CNew(st, node) ==
    IF node.panic \/ node.len < HEADER
    THEN [st |-> Panicked(st), ptr |-> ZeroPtr]
    ELSE Bind(FreshPtr(st), LAMBDA ptr :
           [st |-> [st EXCEPT !.pages = [q \in DOMAIN st.pages \cup {ptr} |->
                                           IF q = ptr THEN node ELSE st.pages[q]],
                              !.overNew = @ \/ nbytes(node) > BTREE_PAGE_SIZE,
                              !.oob = @ \/ node.oob,
                              !.nnew = @ + 1],
            ptr |-> ptr])

\* C.tree.del
CDel(st, ptr) ==
    IF ptr \in DOMAIN st.pages
    THEN [st EXCEPT !.pages = [q \in DOMAIN st.pages \ {ptr} |-> st.pages[q]],
                    !.dead = @ \cup {ptr},
                    !.ndel = @ + 1]
    ELSE [st EXCEPT !.badDel = TRUE, !.ndel = @ + 1]

----------------------------------------------------------------------------
(* KV pages.  A KV store `st` carries the fields of the handle and, in     *)
(* `disk`, the file behind its path as the mapping shows it.  A page of    *)
(* `updates` that holds NilNode is a deallocated page (a nil slice).       *)

\* a < b on uint64
PtrLess(a, b) == \E j \in 1..4 : a[j] < b[j] /\ \A i \in (j + 1)..4 : a[i] = b[i]

\* uint64(n) of an int n
PtrOf(n) == <<n % 65536, (n \div 65536) % 65536, 0, 0>>

\* int(ptr) of a page number that was compared with a page count before
PtrInt(ptr) == ptr[1] + 65536 * ptr[2]

NoPages == [q \in {} |-> NilNode]

\* a nil map / make(map[uint64][]byte)
NilMap == [isNil |-> TRUE, m |-> NoPages]

EmptyMap == [isNil |-> FALSE, m |-> NoPages]

\* db.page.updates[ptr] = data; a write to a nil map panics
MapPut(st, ptr, node) ==
    IF st.updates.isNil THEN Panicked(st)
    ELSE [st EXCEPT !.updates.m = [q \in DOMAIN @ \cup {ptr} |->
                                     IF q = ptr THEN node ELSE @[q]]]

\* the first 40 bytes of a zero-filled page 0
NoMaster == [sig |-> "", root |-> ZeroPtr, used |-> ZeroPtr, head |-> ZeroPtr]

\* page n of the file read through the mapping.  Touching a page that starts
\* behind the end of the file ends the process; a page 0 that holds a master
\* record is not a node image the codec decodes.
MappedPage(st, n) ==
    IF st.unmapped \/ n * BTREE_PAGE_SIZE >= st.disk.size THEN PanicNode
    ELSE IF n = 0
    THEN (IF st.disk.master = NoMaster THEN NewBuf(BTREE_PAGE_SIZE)
          ELSE [NewBuf(BTREE_PAGE_SIZE) EXCEPT !.oob = TRUE])
    ELSE IF n \in DOMAIN st.disk.pages THEN st.disk.pages[n]
    ELSE NewBuf(BTREE_PAGE_SIZE)

\* the bytes of a page image as copy() moves them into a mapped page
PageImage(node) ==
    IF node.len # BTREE_PAGE_SIZE \/ KvBase(node) > BTREE_PAGE_SIZE
    THEN [node EXCEPT !.oob = TRUE]
    ELSE IF node.cap = BTREE_PAGE_SIZE THEN node
    ELSE [node EXCEPT !.cap = BTREE_PAGE_SIZE,
                      !.kv = Slice(@, 0, BTREE_PAGE_SIZE - KvBase(node))]

\* a write of a page image through the mapping
MappedWrite(st, n, node) ==
    IF n = 0 \/ node.oob THEN [st EXCEPT !.oob = TRUE]
    ELSE [st EXCEPT !.disk.pages = [q \in DOMAIN @ \cup {n} |->
                                      IF q = n THEN node ELSE @[q]]]

RECURSIVE mappedLoop(_, _, _, _)
\* the loop of pageGetMapped over chunks[i..]; start is the first page of
\* chunk i
mappedLoop(st, ptr, i, start) ==
    IF i > Len(st.chunks) THEN PanicNode
    ELSE IF PtrLess(ptr, PtrOf(start + st.chunks[i] \div BTREE_PAGE_SIZE))
    THEN MappedPage(st, PtrInt(ptr))
    ELSE mappedLoop(st, ptr, i + 1, start + st.chunks[i] \div BTREE_PAGE_SIZE)

pageGetMapped(st, ptr) == mappedLoop(st, ptr, 1, 0)

\* KV.pageGet
pageGet(st, ptr) ==
    IF ~st.updates.isNil /\ ptr \in DOMAIN st.updates.m
    THEN [st |-> st, node |-> st.updates.m[ptr]]
    ELSE Ret(st, pageGetMapped(st, ptr))

\* KV.pageDel
pageDel(st, ptr) == MapPut(st, ptr, NilNode)

\* KV.pageUse
pageUse(st, ptr, node) == MapPut(st, ptr, node)

\* KV.pageAppend
pageAppend(st, node) ==
    [st |-> MapPut([st EXCEPT !.nappend = @ + 1],
                   PtrOf(st.flushed + st.nappend), node),
     ptr |-> PtrOf(st.flushed + st.nappend)]

\* the buffer `get` returned was written in place: it is the buffer of the
\* updates map or the mapped page itself
PutBack(st, ptr, node) ==
    IF node.panic THEN Panicked(st)
    ELSE IF ~st.updates.isNil /\ ptr \in DOMAIN st.updates.m
    THEN [st EXCEPT !.updates.m[ptr] = node]
    ELSE MappedWrite(st, PtrInt(ptr), node)

----------------------------------------------------------------------------
(* The free list.  A list node shares the header of a BNode: its size is   *)
(* the field at bytes 2..4, its total, next pointer and page pointers are  *)
(* 8-byte fields from byte 4 on.                                           *)

\* binary.LittleEndian.Uint64(b) and PutUint64(b, v) index b[7]: b must hold
\* 8 bytes
Uint64Ok(n) == n >= 8

\* the 8 bytes at pos
rd64(node, pos) == [j \in 1..4 |-> rd16(node, pos + 2 * (j - 1))]

flnSizeOk(node) == 4 <= node.cap

flnSize(node) == nkeys(node)

flnSetTotalOk(node) == 12 <= node.cap /\ Uint64Ok(12 - 4)

flnSetTotal(node, total) ==
    IF ~flnSetTotalOk(node) THEN [node EXCEPT !.panic = TRUE]
    ELSE putWords(node, 4, total, 1)

\* node.data[12:16] is a slice of 4 bytes
flnNextOk(node) == 16 <= node.cap /\ Uint64Ok(16 - 12)

flnNext(node) == rd64(node, 12)

flnPtrOk(node, idx) ==
    /\ FREE_LIST_HEADER + 8 * idx >= 0
    /\ FREE_LIST_HEADER + 8 * idx <= node.len
    /\ Uint64Ok(node.len - (FREE_LIST_HEADER + 8 * idx))

flnPtr(node, idx) == rd64(node, FREE_LIST_HEADER + 8 * idx)

\* flnSetHeader, on the zeroed buffers the code calls it on
flnSetHeader(node, size, next) ==
    IF ~flnSizeOk(node) THEN [node EXCEPT !.panic = TRUE]
    ELSE Bind(setHeader(node, btype(node), size), LAMBDA n1 :
           IF ~flnNextOk(n1) THEN [n1 EXCEPT !.panic = TRUE]
           ELSE putWords(n1, 12, next, 1))

flnSetPtr(node, idx, ptr) ==
    IF node.panic \/ node.oob THEN node
    ELSE IF ~flnPtrOk(node, idx) THEN [node EXCEPT !.panic = TRUE]
    ELSE putWords(node, FREE_LIST_HEADER + 8 * idx, ptr, 1)

\* fl.get: nil until Open wires it to pageGet
flGet(st, ptr) ==
    IF st.panic THEN [st |-> st, node |-> PanicNode]
    ELSE IF ~st.wired THEN PanicRet(st)
    ELSE pageGet(st, ptr)

\* int(v) of a uint64 as a loop bound: negative from 2^63 on; a count the
\* model's integers cannot hold reads as 65536
IntOf(v) ==
    IF v[4] >= 32768 THEN -1
    ELSE IF v[2] = 0 /\ v[3] = 0 /\ v[4] = 0 THEN v[1]
    ELSE 65536

RECURSIVE totalLoop(_, _, _, _, _)
\* the loop of Total from its i-th round on
totalLoop(st, node, i, n, total) ==
    IF st.panic \/ i >= n THEN [st |-> st, total |-> total]
    ELSE IF ~flnSizeOk(node) \/ ~flnNextOk(node)
    THEN [st |-> Panicked(st), total |-> total]
    ELSE Bind(flGet(st, flnNext(node)), LAMBDA g :
           totalLoop(g.st, g.node, i + 1, n, total + flnSize(node)))

\* FreeList.Total
FLTotal(st) ==
    Bind(flGet(st, st.head), LAMBDA g :
      IF g.st.panic THEN [st |-> g.st, total |-> 0]
      ELSE IF ~flnSetTotalOk(g.node) THEN [st |-> Panicked(g.st), total |-> 0]
      ELSE totalLoop(g.st, g.node, 0, IntOf(rd64(g.node, 4)), 0))

RECURSIVE flGetLoop(_, _, _)
\* the loop of Get and its return
flGetLoop(st, node, topn) ==
    IF st.panic THEN [st |-> st, ptr |-> ZeroPtr]
    ELSE IF ~flnSizeOk(node) THEN [st |-> Panicked(st), ptr |-> ZeroPtr]
    ELSE IF flnSize(node) <= topn
    THEN IF ~flnNextOk(node) THEN [st |-> Panicked(st), ptr |-> ZeroPtr]
         ELSE Bind(flGet(st, flnNext(node)), LAMBDA g :
                flGetLoop(g.st, g.node, topn - flnSize(node)))
    ELSE IF ~flnPtrOk(node, flnSize(node) - topn - 1)
    THEN [st |-> Panicked(st), ptr |-> ZeroPtr]
    ELSE [st |-> st, ptr |-> flnPtr(node, flnSize(node) - topn - 1)]

\* FreeList.Get
FLGet(st, topn) ==
    Bind(flGet(st, st.head), LAMBDA g : flGetLoop(g.st, g.node, topn))

\* KV.pageNew
pageNew(st, node) ==
    Bind(FLTotal(st), LAMBDA t :
      IF t.st.panic THEN [st |-> t.st, ptr |-> ZeroPtr]
      ELSE Bind(IF st.nfree < t.total
                THEN Bind(FLGet(t.st, st.nfree), LAMBDA f :
                       [st |-> IF f.st.panic THEN f.st
                               ELSE [f.st EXCEPT !.nfree = @ + 1],
                        ptr |-> f.ptr])
                ELSE [st |-> [t.st EXCEPT !.nappend = @ + 1],
                      ptr |-> PtrOf(st.flushed + st.nappend)],
                LAMBDA a :
                  IF a.st.panic THEN a
                  ELSE [st |-> MapPut(a.st, a.ptr, node), ptr |-> a.ptr]))

\* fl.new and fl.use: nil until Open wires them to pageNew and pageUse
flNew(st, node) ==
    IF st.panic THEN [st |-> st, ptr |-> ZeroPtr]
    ELSE IF ~st.wired THEN [st |-> Panicked(st), ptr |-> ZeroPtr]
    ELSE pageNew(st, node)

flUse(st, ptr, node) ==
    IF st.panic THEN st
    ELSE IF ~st.wired THEN Panicked(st)
    ELSE pageUse(st, ptr, node)

RECURSIVE reuseLoop(_, _, _, _)
\* phase 2 of Update: pointers of the node taken for reuse, from the last
reuseLoop(node, remain, reuse, nfreed) ==
    IF remain > 0 /\ Len(reuse) * FREE_LIST_CAP < nfreed + remain
    THEN IF ~flnPtrOk(node, remain - 1)
         THEN [remain |-> remain, reuse |-> reuse, panic |-> TRUE]
         ELSE reuseLoop(node, remain - 1, Append(reuse, flnPtr(node, remain - 1)),
                        nfreed)
    ELSE [remain |-> remain, reuse |-> reuse, panic |-> FALSE]

RECURSIVE freedLoop(_, _, _, _)
\* phase 2 of Update: the pointers that stay are moved to freed
freedLoop(node, i, remain, freed) ==
    IF i >= remain THEN [freed |-> freed, panic |-> FALSE]
    ELSE IF ~flnPtrOk(node, i) THEN [freed |-> freed, panic |-> TRUE]
    ELSE freedLoop(node, i + 1, remain, Append(freed, flnPtr(node, i)))

\* one round of the loop of Update on the head node
updateNode(node, popn, freed, reuse) ==
    IF popn >= flnSize(node)
    THEN [popn |-> popn - flnSize(node), freed |-> freed, reuse |-> reuse,
          panic |-> FALSE]
    ELSE Bind(reuseLoop(node, flnSize(node) - popn, reuse, Len(freed)), LAMBDA r :
         Bind(freedLoop(node, 0, r.remain, freed), LAMBDA f :
           [popn |-> 0, freed |-> f.freed, reuse |-> r.reuse,
            panic |-> r.panic \/ f.panic]))

RECURSIVE updateLoop(_, _, _, _, _)
\* the loop of Update
updateLoop(st, popn, freed, reuse, total) ==
    IF st.panic \/ st.head = ZeroPtr \/ ~(Len(reuse) * FREE_LIST_CAP < Len(freed))
    THEN [st |-> st, freed |-> freed, reuse |-> reuse, total |-> total]
    ELSE Bind(flGet(st, st.head), LAMBDA g :
           IF g.st.panic \/ ~flnSizeOk(g.node)
           THEN [st |-> Panicked(g.st), freed |-> freed, reuse |-> reuse,
                 total |-> total]
           ELSE Bind(updateNode(g.node, popn, Append(freed, st.head), reuse),
                     LAMBDA u :
                  IF u.panic \/ ~flnNextOk(g.node)
                  THEN [st |-> Panicked(g.st), freed |-> u.freed,
                        reuse |-> u.reuse, total |-> total]
                  ELSE updateLoop([g.st EXCEPT !.head = flnNext(g.node)], u.popn,
                                  u.freed, u.reuse, total - flnSize(g.node))))

RECURSIVE fillPtrs(_, _, _, _)
\* the loop of flPush over freed[:size]
fillPtrs(node, freed, i, size) ==
    IF node.panic \/ i >= size THEN node
    ELSE fillPtrs(flnSetPtr(node, i, freed[i + 1]), freed, i + 1, size)

RECURSIVE flPush(_, _, _)
flPush(st, freed, reuse) ==
    IF st.panic \/ Len(freed) = 0 THEN st
    ELSE Bind(Lesser(Len(freed), FREE_LIST_CAP), LAMBDA size :
         Bind(fillPtrs(flnSetHeader(NewBuf(BTREE_PAGE_SIZE), size, st.head),
                       freed, 0, size),
              LAMBDA new :
           IF new.panic THEN Panicked(st)
           ELSE IF Len(reuse) > 0
           THEN flPush(flUse([st EXCEPT !.head = reuse[1]], reuse[1], new),
                       SubSeq(freed, size + 1, Len(freed)), Tail(reuse))
           ELSE Bind(flNew(st, new), LAMBDA a :
                  flPush([a.st EXCEPT !.head = a.ptr],
                         SubSeq(freed, size + 1, Len(freed)), reuse))))

\* FreeList.Update
FLUpdate(st, popn, freed) ==
    IF popn = 0 /\ Len(freed) = 0 THEN st
    ELSE Bind(FLTotal(st), LAMBDA t :
         Bind(updateLoop(t.st, popn, freed, << >>, t.total), LAMBDA u :
         Bind(flPush(u.st, u.freed, u.reuse), LAMBDA p :
         Bind(flGet(p, p.head), LAMBDA g :
           IF g.st.panic THEN g.st
           ELSE PutBack(g.st, p.head,
                        flnSetTotal(g.node, PtrOf(u.total + Len(u.freed))))))))

----------------------------------------------------------------------------
(* The callbacks of the tree *)

\* tree.get, tree.new, tree.del: the callbacks the store was wired with; a
\* KV handle has nil callbacks until Open wires pageGet, pageNew, pageDel
cbGet(st, ptr) ==
    IF st.panic THEN [st |-> st, node |-> PanicNode]
    ELSE IF st.kind = "C" THEN CGet(st, ptr)
    ELSE IF st.wired THEN pageGet(st, ptr)
    ELSE PanicRet(st)

cbNew(st, node) ==
    IF st.panic THEN [st |-> st, ptr |-> ZeroPtr]
    ELSE IF st.kind = "C" THEN CNew(st, node)
    ELSE IF st.wired THEN pageNew(st, node)
    ELSE [st |-> Panicked(st), ptr |-> ZeroPtr]

cbDel(st, ptr) ==
    IF st.panic THEN st
    ELSE IF st.kind = "C" THEN CDel(st, ptr)
    ELSE IF st.wired THEN pageDel(st, ptr)
    ELSE Panicked(st)

----------------------------------------------------------------------------
(* The B+tree engine.  Every operator threads the store: it returns the    *)
(* store after the callbacks it made, with the node or value it produced.  *)

RECURSIVE replaceKids(_, _, _, _, _)
\* the loop of nodeReplaceKidN over kids[j..]
replaceKids(st, new, idx, kids, j) ==
    IF j > Len(kids) THEN [st |-> st, node |-> new]
    ELSE Bind(cbNew(st, kids[j]), LAMBDA a :
           IF a.st.panic \/ ~getKeyOk(kids[j], 0) THEN PanicRet(a.st)
           ELSE replaceKids(a.st,
                            nodeAppendKV(new, idx + (j - 1), a.ptr,
                                         getKey(kids[j], 0), Empty),
                            idx, kids, j + 1))

\* replace a link with multiple links
nodeReplaceKidN(st, new, old, idx, kids) ==
    Bind(replaceKids(st,
                     nodeAppendRange(setHeader(new, BNODE_NODE,
                                               U16(old.nkeys + Len(kids) - 1)),
                                     old, 0, 0, idx),
                     idx, kids, 1),
         LAMBDA r :
           IF r.st.panic THEN r
           ELSE Ret(r.st, nodeAppendRange(r.node, old, idx + Len(kids), idx + 1,
                                          U16(old.nkeys + 65536 - (idx + 1)))))

RECURSIVE treeInsert(_, _, _, _)
RECURSIVE nodeInsert(_, _, _, _, _, _)
\* insert a KV into a node, the result might be split into 2 nodes.
treeInsert(st, node, key, val) ==
    IF st.panic \/ node.panic \/ node.len < HEADER THEN PanicRet(st)
    ELSE Bind(nodeLookupLE(node, key), LAMBDA idx :
           IF idx < 0 THEN PanicRet(st)
           ELSE IF node.btype = BNODE_LEAF
           THEN IF ~getKeyOk(node, idx) THEN PanicRet(st)
                ELSE IF Equal(key, getKey(node, idx))
                THEN Ret(st, leafUpdate(NewBuf(2 * BTREE_PAGE_SIZE), node, idx,
                                        key, val))
                ELSE Ret(st, leafInsert(NewBuf(2 * BTREE_PAGE_SIZE), node, idx + 1,
                                        key, val))
           ELSE IF node.btype = BNODE_NODE
           THEN nodeInsert(st, NewBuf(2 * BTREE_PAGE_SIZE), node, idx, key, val)
           ELSE PanicRet(st))

\* part of the treeInsert(): KV insertion to an internal node
nodeInsert(st, new, node, idx, key, val) ==
    Bind(cbGet(st, getPtr(node, idx)), LAMBDA g :
    Bind(treeInsert(cbDel(g.st, getPtr(node, idx)), g.node, key, val), LAMBDA k :
    Bind(nodeSplit3(k.node), LAMBDA splited :
      IF k.st.panic \/ splited[1].panic THEN PanicRet(k.st)
      ELSE nodeReplaceKidN(k.st, new, node, idx, splited))))

\* the merged size with the header of both nodes counted
mergedSizeBothHeaders(sibling, updated) ==
    U16(nbytes(sibling) + nbytes(updated))

\* the sizes shouldMerge compares: sibling.nbytes() + updated.nbytes() - HEADER
mergedSize(sibling, updated) ==
    U16(nbytes(sibling) + nbytes(updated) + 65536 - HEADER)

\* should the updated kid be merged with a sibling?
shouldMerge(st, node, idx, updated) ==
    IF nbytes(updated) > BTREE_PAGE_SIZE \div 4
    THEN [st |-> st, dir |-> 0, sibling |-> NilNode]
    ELSE Bind(IF idx > 0 THEN cbGet(st, getPtr(node, idx - 1))
              ELSE [st |-> st, node |-> NilNode],
         LAMBDA l :
           IF idx > 0 /\ l.node.len < HEADER
           THEN [st |-> Panicked(l.st), dir |-> 0, sibling |-> NilNode]
           ELSE IF idx > 0 /\ mergedSize(l.node, updated) <= BTREE_PAGE_SIZE
           THEN [st |-> l.st, dir |-> -1, sibling |-> l.node]
           ELSE IF idx + 1 < node.nkeys
           THEN Bind(cbGet(l.st, getPtr(node, idx + 1)), LAMBDA r :
                  IF r.node.len < HEADER
                  THEN [st |-> Panicked(r.st), dir |-> 0, sibling |-> NilNode]
                  ELSE IF mergedSize(r.node, updated) <= BTREE_PAGE_SIZE
                  THEN [st |-> r.st, dir |-> 1, sibling |-> r.node]
                  ELSE [st |-> r.st, dir |-> 0, sibling |-> NilNode])
           ELSE [st |-> l.st, dir |-> 0, sibling |-> NilNode])

\* the merge case of nodeDelete: the sibling's page is deleted, the merged
\* node allocated and linked at index at
nodeDeleteMerge(st, node, at, sibPtr, merged) ==
    Bind(cbNew(cbDel(st, sibPtr), merged), LAMBDA a :
      IF a.st.panic \/ ~getKeyOk(merged, 0) THEN PanicRet(a.st)
      ELSE Ret(a.st, nodeReplace2Kid(NewBuf(BTREE_PAGE_SIZE), node, at, a.ptr,
                                     getKey(merged, 0))))

RECURSIVE treeDelete(_, _, _)
RECURSIVE nodeDelete(_, _, _, _)
\* delete a key from the tree; NilNode when the key is not found
treeDelete(st, node, key) ==
    IF st.panic \/ node.panic \/ node.len < HEADER THEN PanicRet(st)
    ELSE Bind(nodeLookupLE(node, key), LAMBDA idx :
           IF idx < 0 THEN PanicRet(st)
           ELSE IF node.btype = BNODE_LEAF
           THEN IF ~getKeyOk(node, idx) THEN PanicRet(st)
                ELSE IF ~Equal(key, getKey(node, idx))
                THEN [st |-> st, node |-> NilNode]
                ELSE Ret(st, leafDelete(NewBuf(BTREE_PAGE_SIZE), node, idx))
           ELSE IF node.btype = BNODE_NODE
           THEN nodeDelete(st, node, idx, key)
           ELSE PanicRet(st))

\* part of the treeDelete()
nodeDelete(st, node, idx, key) ==
    Bind(cbGet(st, getPtr(node, idx)), LAMBDA g :
    Bind(treeDelete(g.st, g.node, key), LAMBDA u :
      IF u.st.panic THEN u
      ELSE IF u.node.len = 0 THEN [st |-> u.st, node |-> NilNode]
      ELSE Bind(shouldMerge(cbDel(u.st, getPtr(node, idx)), node, idx, u.node),
           LAMBDA m :
             IF m.st.panic THEN PanicRet(m.st)
             ELSE IF m.dir < 0
             THEN nodeDeleteMerge(m.st, node, idx - 1, getPtr(node, idx - 1),
                                  nodeMerge(NewBuf(BTREE_PAGE_SIZE), m.sibling, u.node))
             ELSE IF m.dir > 0
             THEN nodeDeleteMerge(m.st, node, idx, getPtr(node, idx + 1),
                                  nodeMerge(NewBuf(BTREE_PAGE_SIZE), u.node, m.sibling))
             ELSE nodeReplaceKidN(m.st, NewBuf(BTREE_PAGE_SIZE), node, idx,
                                  <<u.node>>))))

NotFound(st) == [st |-> st, val |-> Empty, found |-> FALSE]

RECURSIVE treeGet(_, _, _)
treeGet(st, node, key) ==
    IF st.panic \/ node.panic \/ node.len < HEADER THEN NotFound(Panicked(st))
    ELSE Bind(nodeLookupLE(node, key), LAMBDA idx :
           IF idx < 0 THEN NotFound(Panicked(st))
           ELSE IF node.btype = BNODE_LEAF
           THEN IF ~getKeyOk(node, idx) THEN NotFound(Panicked(st))
                ELSE IF ~Equal(key, getKey(node, idx)) THEN NotFound(st)
                ELSE IF ~getValOk(node, idx) THEN NotFound(Panicked(st))
                ELSE [st |-> st, val |-> getVal(node, idx), found |-> TRUE]
           ELSE IF node.btype = BNODE_NODE
           THEN Bind(cbGet(st, getPtr(node, idx)), LAMBDA g :
                  treeGet(g.st, g.node, key))
           ELSE NotFound(Panicked(st)))

\* BTree.Get
BTreeGet(st, key) ==
    IF st.root = ZeroPtr THEN NotFound(st)
    ELSE Bind(cbGet(st, st.root), LAMBDA g : treeGet(g.st, g.node, key))

\* BTree.Delete with the root page deleted before the result of treeDelete
\* is looked at
BTreeDeleteDelFirst(st, key) ==
    IF st.root = ZeroPtr THEN [st |-> st, ret |-> FALSE]
    ELSE Bind(cbGet(st, st.root), LAMBDA g :
         Bind(treeDelete(g.st, g.node, key), LAMBDA u :
           IF u.st.panic THEN [st |-> u.st, ret |-> FALSE]
           ELSE IF u.node.len = 0 THEN [st |-> cbDel(u.st, st.root), ret |-> FALSE]
           ELSE IF u.node.btype = BNODE_NODE /\ u.node.nkeys = 1
           THEN [st |-> [cbDel(u.st, st.root) EXCEPT !.root = getPtr(u.node, 0)],
                 ret |-> TRUE]
           ELSE Bind(cbNew(cbDel(u.st, st.root), u.node), LAMBDA a :
                  [st |-> [a.st EXCEPT !.root = a.ptr], ret |-> TRUE])))

\* BTree.Delete with every rebuilt root published through `new`
BTreeDeleteNoCollapse(st, key) ==
    IF st.root = ZeroPtr THEN [st |-> st, ret |-> FALSE]
    ELSE Bind(cbGet(st, st.root), LAMBDA g :
         Bind(treeDelete(g.st, g.node, key), LAMBDA u :
           IF u.st.panic THEN [st |-> u.st, ret |-> FALSE]
           ELSE IF u.node.len = 0 THEN [st |-> u.st, ret |-> FALSE]
           ELSE Bind(cbNew(cbDel(u.st, st.root), u.node), LAMBDA a :
                  [st |-> [a.st EXCEPT !.root = a.ptr], ret |-> TRUE])))

\* BTree.Delete
BTreeDelete(st, key) ==
    IF st.root = ZeroPtr THEN [st |-> st, ret |-> FALSE]
    ELSE Bind(cbGet(st, st.root), LAMBDA g :
         Bind(treeDelete(g.st, g.node, key), LAMBDA u :
           IF u.st.panic THEN [st |-> u.st, ret |-> FALSE]
           ELSE IF u.node.len = 0 THEN [st |-> u.st, ret |-> FALSE]
           ELSE IF u.node.btype = BNODE_NODE /\ u.node.nkeys = 1
           THEN [st |-> [cbDel(u.st, st.root) EXCEPT !.root = getPtr(u.node, 0)],
                 ret |-> TRUE]
           ELSE Bind(cbNew(cbDel(u.st, st.root), u.node), LAMBDA a :
                  [st |-> [a.st EXCEPT !.root = a.ptr], ret |-> TRUE])))

RECURSIVE rootKids(_, _, _, _)
\* the loop of BTree.Insert that fills the new root
rootKids(st, root, splitted, j) ==
    IF j > Len(splitted) THEN [st |-> st, node |-> root]
    ELSE Bind(cbNew(st, splitted[j]), LAMBDA a :
           IF a.st.panic \/ ~getKeyOk(splitted[j], 0) THEN PanicRet(a.st)
           ELSE rootKids(a.st,
                         nodeAppendKV(root, j - 1, a.ptr, getKey(splitted[j], 0),
                                      Empty),
                         splitted, j + 1))

\* tree.root = tree.new(node)
setRoot(st, node) ==
    Bind(cbNew(st, node), LAMBDA a : [a.st EXCEPT !.root = a.ptr])

\* BTree.Insert with the root over the split pieces typed as a leaf
BTreeInsertLeafRoot(st, key, val) ==
    IF st.root = ZeroPtr
    THEN setRoot(st,
                 nodeAppendKV(nodeAppendKV(setHeader(NewBuf(BTREE_PAGE_SIZE),
                                                     BNODE_LEAF, 2),
                                           0, ZeroPtr, Empty, Empty),
                              1, ZeroPtr, key, val))
    ELSE Bind(cbGet(st, st.root), LAMBDA g :
         Bind(treeInsert(cbDel(g.st, st.root), g.node, key, val), LAMBDA t :
         Bind(nodeSplit3(t.node), LAMBDA splitted :
           IF t.st.panic \/ splitted[1].panic THEN Panicked(t.st)
           ELSE IF Len(splitted) > 1
           THEN Bind(rootKids(t.st,
                              setHeader(NewBuf(BTREE_PAGE_SIZE), BNODE_LEAF,
                                        Len(splitted)),
                              splitted, 1),
                     LAMBDA k : setRoot(k.st, k.node))
           ELSE setRoot(t.st, splitted[1]))))

\* BTree.Insert
BTreeInsert(st, key, val) ==
    IF st.root = ZeroPtr
    THEN setRoot(st,
                 nodeAppendKV(nodeAppendKV(setHeader(NewBuf(BTREE_PAGE_SIZE),
                                                     BNODE_LEAF, 2),
                                           0, ZeroPtr, Empty, Empty),
                              1, ZeroPtr, key, val))
    ELSE Bind(cbGet(st, st.root), LAMBDA g :
         Bind(treeInsert(cbDel(g.st, st.root), g.node, key, val), LAMBDA t :
         Bind(nodeSplit3(t.node), LAMBDA splitted :
           IF t.st.panic \/ splitted[1].panic THEN Panicked(t.st)
           ELSE IF Len(splitted) > 1
           THEN Bind(rootKids(t.st,
                              setHeader(NewBuf(BTREE_PAGE_SIZE), BNODE_NODE,
                                        Len(splitted)),
                              splitted, 1),
                     LAMBDA k : setRoot(k.st, k.node))
           ELSE setRoot(t.st, splitted[1]))))

----------------------------------------------------------------------------
(* The test harness C: a tree over an in-memory page map, beside the       *)
(* reference map `ref` that the same calls drive.  A panic ends the test   *)
(* process: the store stays as the panic left it and no call follows.      *)

\* the keys of the calls: one-byte keys and a key of the maximal size
Keys == {Bytes(b, 1) : b \in 1..NumKeyBytes} \cup {Bytes(1, BTREE_MAX_KEY_SIZE)}

\* the values of the calls: a short value and a value of the maximal size
Vals == {Bytes(7, 70), Bytes(7, BTREE_MAX_VAL_SIZE)}

NoRef == [k \in {} |-> Empty]

\* newC
newC(heap) ==
    [kind |-> "C", root |-> ZeroPtr, pages |-> NoPages, ref |-> NoRef, heap |-> heap,
     dead |-> {}, overNew |-> FALSE, badGet |-> FALSE, badDel |-> FALSE,
     nnew |-> 0, ndel |-> 0, panic |-> FALSE, oob |-> FALSE, nops |-> 0]

\* the addresses the first buffer of a run may have: the pointer that
\* nodeReplace2Kid writes past its array is 64 KB aligned for some, not for
\* others
Heaps == {<<w, 1, 192, 0>> : w \in {0, 32768, 49152}}

\* the store as an operation finds it: nothing recorded yet
Begin(st) ==
    [st EXCEPT !.dead = {}, !.overNew = FALSE, !.badGet = FALSE, !.badDel = FALSE,
               !.nnew = 0, !.ndel = 0, !.nops = @ + 1]

NoObs ==
    [op |-> "none", key |-> Empty, val |-> Empty, ret |-> FALSE, present |-> FALSE,
     prevDel |-> Empty]

\* C.add
CAdd(key, val) ==
    /\ ~c.panic
    /\ c.nops < MaxOps
    /\ c' = Bind(BTreeInsert(Begin(c), key, val), LAMBDA r :
                IF r.panic THEN r
                ELSE [r EXCEPT !.ref = [k \in DOMAIN c.ref \cup {key} |->
                                          IF k = key THEN val ELSE c.ref[k]]])
    /\ obs' = [op |-> "Insert", key |-> key, val |-> val, ret |-> ~c'.panic,
               present |-> key \in DOMAIN c.ref, prevDel |-> Empty]
    /\ UNCHANGED <<kv, file, fl>>

\* C.del
CDelete(key) ==
    /\ ~c.panic
    /\ c.nops < MaxOps
    /\ Bind(BTreeDelete(Begin(c), key), LAMBDA r :
         /\ c' = [r.st EXCEPT !.ref = [k \in DOMAIN c.ref \ {key} |-> c.ref[k]]]
         /\ obs' = [op |-> "Delete", key |-> key, val |-> Empty, ret |-> r.ret,
                    present |-> key \in DOMAIN c.ref,
                    prevDel |-> IF obs.op = "Delete" /\ obs.ret THEN obs.key
                                ELSE Empty])
    /\ UNCHANGED <<kv, file, fl>>

\* C.get
CGetKey(key) ==
    /\ ~c.panic
    /\ c.nops < MaxOps
    /\ Bind(BTreeGet(Begin(c), key), LAMBDA r :
         /\ c' = r.st
         /\ obs' = [op |-> "Get", key |-> key, val |-> r.val, ret |-> r.found,
                    present |-> key \in DOMAIN c.ref, prevDel |-> Empty])
    /\ UNCHANGED <<kv, file, fl>>

\* C.add without the bookkeeping of the model
Added(st, kv1) ==
    [BTreeInsert(Begin(st), kv1[1], kv1[2]) EXCEPT
       !.ref = [k \in DOMAIN st.ref \cup {kv1[1]} |->
                  IF k = kv1[1] THEN kv1[2] ELSE st.ref[k]],
       !.nops = 0]

RECURSIVE Load(_, _, _)
\* the harness after the calls add(seq[i]), add(seq[i+1]), ...
Load(st, seq, i) == IF i > Len(seq) THEN st ELSE Load(Added(st, seq[i]), seq, i + 1)

\* the insertions a run starts with: none; two that fill and split a leaf;
\* three that leave a root over three leaves; three that split a leaf in
\* three, with a leaf of one pair at the right end
Preloads ==
    {<< >>,
     <<<<Bytes(1, 1), Bytes(7, 70)>>,
       <<Bytes(1, BTREE_MAX_KEY_SIZE), Bytes(7, BTREE_MAX_VAL_SIZE)>>>>,
     <<<<Bytes(1, 1), Bytes(7, BTREE_MAX_VAL_SIZE)>>,
       <<Bytes(1, BTREE_MAX_KEY_SIZE), Bytes(7, BTREE_MAX_VAL_SIZE)>>,
       <<Bytes(2, 1), Bytes(7, BTREE_MAX_VAL_SIZE)>>>>,
     <<<<Bytes(2, 1), Bytes(7, BTREE_MAX_VAL_SIZE)>>,
       <<Bytes(1, 1), Bytes(7, 70)>>,
       <<Bytes(1, BTREE_MAX_KEY_SIZE), Bytes(7, BTREE_MAX_VAL_SIZE)>>>>}

InitC ==
    /\ \E heap \in Heaps, seq \in Preloads : c = Load(newC(heap), seq, 1)
    /\ obs = NoObs
    /\ kv = 0
    /\ file = 0
    /\ fl = 0

NextC ==
    \/ \E key \in Keys, val \in Vals : CAdd(key, val)
    \/ \E key \in Keys : CDelete(key)
    \/ \E key \in Keys : CGetKey(key)

Spec == InitC /\ [][NextC]_vars

----------------------------------------------------------------------------
(* Reading the tree in a state *)

\* what Get(k) returns on the store st: <<val, found, panicked>>
GetIn(st, key) ==
    Bind(BTreeGet(Begin(st), key), LAMBDA r :
      IF r.st.panic THEN <<Empty, FALSE, TRUE>> ELSE <<r.val, r.found, FALSE>>)

\* what Get(k) returns in the current state
GetNow(key) == GetIn(c, key)

\* what the reference map holds for k
RefNow(key) ==
    IF key \in DOMAIN c.ref THEN <<c.ref[key], TRUE, FALSE>>
    ELSE <<Empty, FALSE, FALSE>>

----------------------------------------------------------------------------
(* Claims about the tree under the harness (specification Spec) *)

\* C1: after any sequence of Insert and Delete calls from the empty tree,
\* every call has returned and Get(k) returns (v, true) exactly when the
\* reference map driven by the same calls maps k to v, and not-found for
\* every other key.
C1_GetEqualsReference ==
    ~c.panic /\ \A k \in Keys : GetNow(k) = RefNow(k)

\* C6: every page image handed to the `new` callback has
\* nbytes() <= BTREE_PAGE_SIZE.
C6_NewWithinPage == ~c.overNew

\* C7: Delete(k) returns false when k is absent, true when k is present, and
\* false when issued immediately after a successful Delete(k); it returns in
\* all three cases.
C7_DeleteReturn ==
    obs.op = "Delete" =>
        /\ ~c.panic
        /\ obs.ret = obs.present
        /\ (obs.prevDel = obs.key => ~obs.ret)

\* C8: every page number the tree passes to `get` or `del` is a live page:
\* it was returned by `new` and has not been passed to `del` since.
C8_LivePagesOnly == ~c.badGet /\ ~c.badDel

RECURSIVE SubtreeOrdered(_, _, _, _, _, _)
\* the node on page ptr and the nodes below it keep the order: the first key
\* is lo, the key its parent holds for it; the keys from index 1 on increase
\* strictly and lie in [lo, hi) (no upper bound unless hasHi); kid i covers
\* the keys from keys[i] up to keys[i+1]
SubtreeOrdered(pages, ptr, lo, hi, hasHi, fuel) ==
    /\ fuel > 0
    /\ ptr \in DOMAIN pages
    /\ Bind(pages[ptr], LAMBDA n :
         /\ n.btype \in {BNODE_NODE, BNODE_LEAF}
         /\ n.nkeys >= 1
         /\ \A i \in 0..(n.nkeys - 1) : getKeyOk(n, i)
         /\ Equal(getKey(n, 0), lo)
         /\ \A i \in 1..(n.nkeys - 1) :
              /\ Compare(getKey(n, i), lo) >= 0
              /\ hasHi => Compare(getKey(n, i), hi) < 0
         /\ \A i \in 1..(n.nkeys - 2) : Compare(getKey(n, i), getKey(n, i + 1)) < 0
         /\ n.btype = BNODE_NODE =>
              \A i \in 0..(n.nkeys - 1) :
                /\ ptrOk(n, i)
                /\ SubtreeOrdered(pages, getPtr(n, i), getKey(n, i),
                                  IF i + 1 < n.nkeys THEN getKey(n, i + 1) ELSE hi,
                                  i + 1 < n.nkeys \/ hasHi, fuel - 1))

\* the tree under the root keeps the order
TreeOrdered(st) ==
    \/ st.root = ZeroPtr
    \/ SubtreeOrdered(st.pages, st.root, Empty, Empty, FALSE, 4)

\* C17: after any sequence of Insert/Delete, in every node reachable from the
\* root the keys at indexes >= 1 increase strictly, every internal entry's
\* key is the key at index 0 of the kid it points to, and the subtree under
\* pointers[i] holds only keys >= keys[i] and < keys[i+1].
C17_TreeOrdered == ~c.panic => TreeOrdered(c)

RECURSIVE SubtreeNonEmpty(_, _, _)
\* the node on page ptr and the nodes its pointers lead to have an entry
SubtreeNonEmpty(pages, ptr, fuel) ==
    \/ fuel = 0
    \/ ptr \notin DOMAIN pages
    \/ Bind(pages[ptr], LAMBDA n :
         /\ n.nkeys >= 1
         /\ n.btype = BNODE_NODE =>
              \A i \in 0..(n.nkeys - 1) :
                ptrOk(n, i) => SubtreeNonEmpty(pages, getPtr(n, i), fuel - 1))

\* C22: after any sequence of Insert/Delete on a non-empty tree, every
\* internal node and every leaf reachable from the root has nkeys >= 1: a
\* Delete never publishes an empty leaf as a child of an internal node.
C22_NoEmptyNode == (~c.panic /\ c.root # ZeroPtr) => SubtreeNonEmpty(c.pages, c.root, 4)

RECURSIVE LeftmostLeaf(_, _, _)
\* the page of the leaf that the pointers at index 0 lead to from page ptr,
\* ZeroPtr when they lead to no leaf
LeftmostLeaf(pages, ptr, fuel) ==
    IF fuel = 0 \/ ptr \notin DOMAIN pages THEN ZeroPtr
    ELSE IF pages[ptr].btype = BNODE_LEAF THEN ptr
    ELSE IF pages[ptr].btype = BNODE_NODE /\ ptrOk(pages[ptr], 0)
    THEN LeftmostLeaf(pages, getPtr(pages[ptr], 0), fuel - 1)
    ELSE ZeroPtr

\* entry 0 of the node is the sentinel
HasSentinel(n) ==
    /\ n.nkeys >= 1
    /\ getKeyOk(n, 0)
    /\ getValOk(n, 0)
    /\ Equal(getKey(n, 0), Empty)
    /\ Equal(getVal(n, 0), Empty)

RECURSIVE GetSlot(_, _, _, _)
\* <<page, index>> of the leaf entry that treeGet compares the key with
GetSlot(pages, ptr, key, fuel) ==
    IF fuel = 0 \/ ptr \notin DOMAIN pages THEN <<ZeroPtr, -1>>
    ELSE Bind(nodeLookupLE(pages[ptr], key), LAMBDA idx :
           IF pages[ptr].btype = BNODE_NODE
           THEN GetSlot(pages, getPtr(pages[ptr], idx), key, fuel - 1)
           ELSE <<ptr, idx>>)

\* C23: after the first Insert and any later Insert/Delete with non-empty
\* keys, the leftmost leaf reachable from the root has the sentinel (empty
\* key, empty value) at index 0, and Get never returns the sentinel for a
\* non-empty key.
C23_Sentinel ==
    (~c.panic /\ c.root # ZeroPtr) =>
        Bind(LeftmostLeaf(c.pages, c.root, 4), LAMBDA leaf :
          /\ leaf # ZeroPtr
          /\ HasSentinel(c.pages[leaf])
          /\ (obs.op = "Get" /\ obs.ret) =>
                GetSlot(c.pages, c.root, obs.key, 4) # <<leaf, 0>>)

\* C34: a Delete(k) of a key that is not in the tree calls neither `new` nor
\* `del`, leaves tree.root unchanged and leaves the result of Get unchanged
\* for every key, at every tree height.
C34_DeleteAbsent ==
    [][(obs'.op = "Delete" /\ GetNow(obs'.key) = <<Empty, FALSE, FALSE>>) =>
         /\ ~c'.panic
         /\ ~obs'.ret
         /\ c'.nnew = 0
         /\ c'.ndel = 0
         /\ c'.root = c.root
         /\ \A k \in Keys : GetIn(c', k) = GetIn(c, k)]_vars

\* a Delete of a key that is not in a tree of two levels returned false
C34_Witness ==
    /\ obs.op = "Delete"
    /\ ~obs.ret
    /\ ~c.panic
    /\ c.root # ZeroPtr
    /\ c.pages[c.root].btype = BNODE_NODE
    /\ GetNow(obs.key) = <<Empty, FALSE, FALSE>>

\* the pieces nodeSplit3 returns to Insert(key, val) on the store st; none
\* when the tree is empty or the descent panics
RootPieces(st, key, val) ==
    IF st.root = ZeroPtr THEN <<>>
    ELSE Bind(cbGet(Begin(st), st.root), LAMBDA g :
         Bind(treeInsert(cbDel(g.st, st.root), g.node, key, val), LAMBDA t :
           IF t.st.panic THEN <<>> ELSE nodeSplit3(t.node)))

\* the root of st is an internal node over the pieces ps, entry by entry
RootOver(st, ps) ==
    /\ st.root \in DOMAIN st.pages
    /\ Bind(st.pages[st.root], LAMBDA r :
         /\ r.btype = BNODE_NODE
         /\ r.nkeys = Len(ps)
         /\ Len(ps) \in {2, 3}
         /\ \A j \in 0..(Len(ps) - 1) :
              /\ getPtr(r, j) \in DOMAIN st.pages
              /\ st.pages[getPtr(r, j)] = ps[j + 1]
              /\ getKey(r, j) = getKey(ps[j + 1], 0))

\* C35: whenever an Insert makes the root image larger than one page, the
\* new root is an internal node whose nkeys is the number of pieces (2 or 3)
\* of the split, and whose entry j holds the page number assigned to piece j
\* and the key at index 0 of piece j.
C35_RootSplit ==
    [][obs'.op = "Insert" =>
         Bind(RootPieces(c, obs'.key, obs'.val), LAMBDA ps :
           Len(ps) > 1 => (~c'.panic /\ RootOver(c', ps)))]_vars

\* an Insert split the root in three
C35_Witness ==
    /\ obs.op = "Insert"
    /\ ~c.panic
    /\ c.nnew = 4
    /\ c.root \in DOMAIN c.pages
    /\ c.pages[c.root].btype = BNODE_NODE
    /\ c.pages[c.root].nkeys = 3

\* what treeDelete hands back to Delete(key) on the store st
RootRebuilt(st, key) ==
    Bind(cbGet(Begin(st), st.root), LAMBDA g : treeDelete(g.st, g.node, key))

\* C36: after a Delete that found its key, a rebuilt root that is an internal
\* node with exactly 1 key makes tree.root that node's pointers[0] and no
\* page is allocated for it; any other rebuilt root is published through
\* `new`.  In both cases the old root page is passed to `del` exactly once.
C36_RootCollapse ==
    [][(obs'.op = "Delete" /\ obs'.ret) =>
         Bind(RootRebuilt(c, obs'.key), LAMBDA u :
           /\ IF u.node.btype = BNODE_NODE /\ u.node.nkeys = 1
              THEN /\ c'.root = getPtr(u.node, 0)
                   /\ c'.nnew = u.st.nnew
              ELSE /\ c'.nnew = u.st.nnew + 1
                   /\ c'.root \in DOMAIN c'.pages
                   /\ c'.pages[c'.root] = u.node
           /\ c.root \notin u.st.dead
           /\ c.root \in c'.dead
           /\ c'.ndel = u.st.ndel + 1
           /\ ~c'.badDel)]_vars

\* a Delete took one level off the tree: the root it found was an internal
\* node and the root it left is a page that was there before the call
C36_Witness ==
    /\ obs.op = "Delete"
    /\ obs.ret
    /\ ~c.panic
    /\ c.ndel = 3
    /\ c.nnew = 1
    /\ c.root \in DOMAIN c.pages
    /\ c.pages[c.root].btype = BNODE_LEAF

\* the node is a leaf whose only entry is the sentinel
OnlySentinel(n) ==
    /\ n.btype = BNODE_LEAF
    /\ n.nkeys = 1
    /\ getKeyOk(n, 0)
    /\ getKey(n, 0) = Empty
    /\ getVal(n, 0) = Empty

\* C37: once every inserted key has been deleted, tree.root points at a leaf
\* with nkeys = 1 whose only entry is the sentinel (empty key, empty value),
\* whatever the height of the tree the insertions built.
C37_DeleteAll ==
    (obs.op = "Delete" /\ c.root # ZeroPtr /\ DOMAIN c.ref = {}) =>
        /\ ~c.panic
        /\ c.root \in DOMAIN c.pages
        /\ OnlySentinel(c.pages[c.root])

RECURSIVE Reach(_, _, _)
\* the page numbers the nodes from page ptr down name, ptr included
Reach(pages, ptr, fuel) ==
    IF fuel = 0 \/ ptr \notin DOMAIN pages \/ pages[ptr].btype # BNODE_NODE
    THEN {ptr}
    ELSE {ptr} \cup UNION {Reach(pages, getPtr(pages[ptr], i), fuel - 1) :
                             i \in 0..(pages[ptr].nkeys - 1)}

\* C40: after any sequence of Insert/Delete the page numbers returned by
\* `new` and not yet passed to `del` are exactly the pages reachable from
\* tree.root: no allocated page is unreachable and no reachable pointer names
\* a page that was never allocated or was already deleted.
C40_NoLeakNoDangling ==
    (~c.panic /\ c.root # ZeroPtr) => Reach(c.pages, c.root, 4) = DOMAIN c.pages

----------------------------------------------------------------------------
(* Insert with arguments outside the ranges of the interface.  KV.Set      *)
(* passes its arguments to BTree.Insert as they are, and so does C.add.    *)

\* the keys of the calls: the keys above, the empty key and a key one byte
\* longer than the maximal size
ArgKeys == Keys \cup {Empty, Bytes(1, BTREE_MAX_KEY_SIZE + 1)}

\* the values of the calls: the values above and a value one byte longer
\* than the maximal size
ArgVals == Vals \cup {Bytes(7, BTREE_MAX_VAL_SIZE + 1)}

\* key size in (0, MAX_KEY_SIZE] and value size in [0, MAX_VAL_SIZE]
InRange(key, val) ==
    /\ BLen(key) > 0
    /\ BLen(key) <= BTREE_MAX_KEY_SIZE
    /\ BLen(val) <= BTREE_MAX_VAL_SIZE

\* C.add with any arguments; preRoot is the root the call found
CAddArgs(key, val) ==
    /\ ~c.panic
    /\ c.nops < MaxOps
    /\ c' = Bind(BTreeInsert(Begin(c), key, val), LAMBDA r :
                IF r.panic THEN r
                ELSE [r EXCEPT !.ref = [k \in DOMAIN c.ref \cup {key} |->
                                          IF k = key THEN val ELSE c.ref[k]]])
    /\ obs' = [op |-> "Insert", key |-> key, val |-> val, ret |-> ~c'.panic,
               present |-> key \in DOMAIN c.ref, prevDel |-> Empty,
               preRoot |-> c.root]
    /\ UNCHANGED <<kv, file, fl>>

NextArgs == \E key \in ArgKeys, val \in ArgVals : CAddArgs(key, val)

SpecArgs == InitC /\ [][NextArgs]_vars

\* C14: an insertion with an empty key, a key longer than MAX_KEY_SIZE or a
\* value longer than MAX_VAL_SIZE is rejected: the root stays what it was and
\* no page is allocated or deallocated.
C14_SetRejects ==
    (obs.op = "Insert" /\ ~InRange(obs.key, obs.val)) =>
        /\ c.root = obs.preRoot
        /\ c.nnew = 0
        /\ c.ndel = 0

----------------------------------------------------------------------------
(* The KV store: a handle over a file.  The operators take the handle with *)
(* the file in `disk` and return both as the call leaves them; `err` is    *)
(* the error the call returns ("" for nil) and `log` the I/O calls of the  *)
(* commit.                                                                 *)

DB_SIG == "BuildYourOwnDB05"

\* len(data) of masterStore
MASTER_SIZE == 40

\* mmapSize := 64 << 20
MMAP_INIT == 64 * 1048576

\* KV{Path: path}
NewKV ==
    [kind |-> "KV", panic |-> FALSE, oob |-> FALSE, err |-> "", root |-> ZeroPtr,
     head |-> ZeroPtr, wired |-> FALSE, fp |-> "nil", flushed |-> 0, nfree |-> 0,
     nappend |-> 0, updates |-> NilMap, mmapFile |-> 0, mmapTotal |-> 0,
     chunks |-> << >>, unmapped |-> FALSE, disk |-> 0, log |-> << >>]

Failed(st, err) == [st EXCEPT !.err = err]

\* KV.Close: Munmap of a chunk that is no longer mapped fails
Close(st) ==
    IF Len(st.chunks) > 0 /\ st.unmapped THEN Panicked(st)
    ELSE [st EXCEPT !.unmapped = Len(st.chunks) > 0,
                    !.fp = IF @ = "open" THEN "closed" ELSE @]

RECURSIVE mmapSizeFor(_, _)
\* the loop of mmapInit
mmapSizeFor(mmapSize, size) ==
    IF mmapSize < size THEN mmapSizeFor(2 * mmapSize, size) ELSE mmapSize

mmapInit(disk) ==
    IF disk.size % BTREE_PAGE_SIZE # 0
    THEN [err |-> "File size is not a multiple of page size.", sz |-> 0, chunk |-> 0]
    ELSE [err |-> "", sz |-> disk.size, chunk |-> mmapSizeFor(MMAP_INIT, disk.size)]

masterLoad(st) ==
    IF st.mmapFile = 0 THEN [st EXCEPT !.flushed = 1]
    ELSE IF st.disk.master.sig # DB_SIG THEN Failed(st, "Bad signature.")
    ELSE IF \/ ~(/\ PtrLess(ZeroPtr, st.disk.master.used)
                 /\ ~PtrLess(PtrOf(st.mmapFile \div BTREE_PAGE_SIZE),
                             st.disk.master.used))
            \/ ~PtrLess(st.disk.master.root, st.disk.master.used)
    THEN Failed(st, "Bad master page.")
    ELSE [st EXCEPT !.root = st.disk.master.root,
                    !.flushed = PtrInt(st.disk.master.used),
                    !.head = st.disk.master.head]

\* the tuple masterStore writes
MasterOf(st) ==
    [sig |-> DB_SIG, root |-> st.root, used |-> PtrOf(st.flushed), head |-> st.head]

\* masterStore: a positional write through db.fp
masterStore(st) ==
    IF st.fp # "open"
    THEN [st EXCEPT !.err = "write master page", !.log = Append(@, "pwrite:err")]
    ELSE [st EXCEPT !.disk.master = MasterOf(st),
                    !.disk.size = IF @ < MASTER_SIZE THEN MASTER_SIZE ELSE @,
                    !.log = Append(@, "pwrite:ok")]

\* KV.Open
Open(st) ==
    IF ~st.disk.openable THEN Failed(st, "OpenFile")
    ELSE Bind([st EXCEPT !.fp = "open", !.disk.exists = TRUE], LAMBDA s1 :
         Bind(mmapInit(s1.disk), LAMBDA m :
           IF m.err # "" THEN Failed(Close(s1), "KV.Open")
           ELSE Bind(flnSetHeader(NewBuf(BTREE_PAGE_SIZE), 0, ZeroPtr),
                     LAMBDA headNode :
                Bind(flNew([s1 EXCEPT !.mmapFile = m.sz, !.mmapTotal = m.chunk,
                                      !.chunks = <<m.chunk>>, !.unmapped = FALSE,
                                      !.wired = TRUE,
                                      !.panic = headNode.panic],
                           headNode),
                     LAMBDA a :
                  IF a.st.panic THEN a.st
                  ELSE Bind(masterLoad([a.st EXCEPT !.head = a.ptr]), LAMBDA l :
                         IF l.err # "" THEN Failed(Close(l), "KV.Open")
                         ELSE l)))))

RECURSIVE growPages(_, _)
\* the loop of extendFile
growPages(filePages, npages) ==
    IF filePages < npages
    THEN growPages(filePages + (IF filePages \div 8 < 1 THEN 1 ELSE filePages \div 8),
                   npages)
    ELSE filePages

extendFile(st, npages) ==
    IF st.mmapFile \div BTREE_PAGE_SIZE >= npages THEN st
    ELSE IF st.fp # "open" THEN Failed(st, "fallocate")
    ELSE Bind(growPages(st.mmapFile \div BTREE_PAGE_SIZE, npages) * BTREE_PAGE_SIZE,
              LAMBDA fileSize :
                [st EXCEPT !.mmapFile = fileSize, !.disk.size = fileSize])

\* extendMmap: a mapping of length 0 and a mapping through a closed file fail
extendMmap(st, npages) ==
    IF st.mmapTotal >= npages * BTREE_PAGE_SIZE THEN st
    ELSE IF st.fp # "open" \/ st.mmapTotal = 0 THEN Failed(st, "mmap")
    ELSE [st EXCEPT !.mmapTotal = @ + @, !.chunks = Append(@, st.mmapTotal)]

RECURSIVE Sorted(_, _)
\* the page numbers of S as a range over the map yields them: Go leaves the
\* order open, ord picks ascending or descending
Sorted(S, ord) ==
    IF S = {} THEN << >>
    ELSE Bind(CHOOSE p \in S : \A q \in S \ {p} :
                IF ord = "asc" THEN PtrLess(p, q) ELSE PtrLess(q, p),
              LAMBDA p : <<p>> \o Sorted(S \ {p}, ord))

Orders == {"asc", "desc"}

RECURSIVE copyPages(_, _, _)
\* the copy loop of writePages over ptrs[i..]
copyPages(st, ptrs, i) ==
    IF st.panic \/ i > Len(ptrs) THEN st
    ELSE IF pageGetMapped(st, ptrs[i]).panic THEN Panicked(st)
    ELSE copyPages(MappedWrite(st, PtrInt(ptrs[i]),
                               PageImage(st.updates.m[ptrs[i]])),
                   ptrs, i + 1)

writePages(st, ord) ==
    Bind(FLUpdate(st, st.nfree,
                  Sorted({p \in DOMAIN st.updates.m : st.updates.m[p] = NilNode},
                         ord)),
         LAMBDA u :
      IF u.panic THEN u
      ELSE Bind(extendFile(u, u.flushed), LAMBDA e :
        IF e.err # "" THEN e
        ELSE Bind(extendMmap(e, e.flushed), LAMBDA m :
          IF m.err # "" THEN m
          ELSE [copyPages(m, Sorted({p \in DOMAIN m.updates.m :
                                       m.updates.m[p] # NilNode}, ord), 1)
                  EXCEPT !.log = Append(@, "copy")])))

\* db.fp.Sync(): nil on an open file, an error on a nil or closed one
Sync(st) ==
    IF st.fp # "open" THEN [st EXCEPT !.err = "fsync", !.log = Append(@, "fsync:err")]
    ELSE [st EXCEPT !.log = Append(@, "fsync:ok")]

\* syncPages with the master page written before the first fsync
syncPagesMasterFirst(st) ==
    Bind(masterStore([st EXCEPT !.flushed = @ + Cardinality(DOMAIN st.updates.m),
                                !.updates = EmptyMap]),
         LAMBDA s1 :
      IF s1.err # "" THEN s1
      ELSE Bind(Sync(s1), LAMBDA s2 : IF s2.err # "" THEN s2 ELSE Sync(s2)))

syncPages(st) ==
    Bind(Sync(st), LAMBDA s0 :
      IF s0.err # "" THEN s0
      ELSE Bind(masterStore([s0 EXCEPT
                               !.flushed = @ + Cardinality(DOMAIN st.updates.m),
                               !.updates = EmptyMap]),
                LAMBDA s1 : IF s1.err # "" THEN s1 ELSE Sync(s1)))

flushPages(st, ord) ==
    Bind(writePages(st, ord), LAMBDA w :
      IF w.panic \/ w.err # "" THEN w ELSE syncPages(w))

\* KV.Get
Get(st, key) == BTreeGet(st, key)

\* KV.Set
Set(st, key, val, ord) ==
    Bind(BTreeInsert(st, key, val), LAMBDA t :
      IF t.panic THEN t ELSE flushPages(t, ord))

\* KV.Del
Del(st, key, ord) ==
    Bind(BTreeDelete(st, key), LAMBDA d :
      [st |-> IF d.st.panic THEN d.st ELSE flushPages(d.st, ord), ret |-> d.ret])

----------------------------------------------------------------------------
(* A client of KV: one process holds one handle on one path.  A panic ends *)
(* the process; a new process starts with a new handle on the same path.   *)

\* an empty file.  `ref` is the reference map of the calls that returned
\* success on this path; `foreign` marks a file that is no image this
\* store's format describes.
EmptyFile ==
    [exists |-> TRUE, openable |-> TRUE, size |-> 0, master |-> NoMaster,
     pages |-> NoPages, ref |-> NoRef, foreign |-> FALSE]

\* a file of two pages: a master record (root, used, no free list) and the
\* leaf that holds the sentinel and one pair.  It is a database image when
\* root = 1 and used = 2.
DBFile(root, used) ==
    [EmptyFile EXCEPT
       !.size = 2 * BTREE_PAGE_SIZE,
       !.master = [sig |-> DB_SIG, root |-> PtrOf(root), used |-> PtrOf(used),
                   head |-> ZeroPtr],
       !.pages = [n \in {1} |->
                    nodeAppendKV(nodeAppendKV(setHeader(NewBuf(BTREE_PAGE_SIZE),
                                                        BNODE_LEAF, 2),
                                              0, ZeroPtr, Empty, Empty),
                                 1, ZeroPtr, Bytes(1, 1), Bytes(7, 70))],
       !.ref = [k \in {Bytes(1, 1)} |-> Bytes(7, 70)],
       !.foreign = ~(root = 1 /\ used = 2)]

\* the files a run may find behind the path: none, an empty file, a file of
\* one zero page, a file that is no whole number of pages, a path that
\* cannot be opened, a database image, and images with a bad master record
Files ==
    {[EmptyFile EXCEPT !.exists = FALSE], EmptyFile,
     [EmptyFile EXCEPT !.size = BTREE_PAGE_SIZE, !.foreign = TRUE],
     [EmptyFile EXCEPT !.size = 100, !.foreign = TRUE],
     [EmptyFile EXCEPT !.openable = FALSE, !.foreign = TRUE],
     DBFile(1, 2), DBFile(1, 0), DBFile(1, 3), DBFile(2, 2)}

\* the handle as a call finds it, over the file
Start(h, f) == [h EXCEPT !.disk = f, !.err = "", !.log = << >>]

\* what Get(key) on handle h over file f returns: <<val, found, panicked>>
KVRead(h, f, key) ==
    Bind(Get(Start(h, f), key), LAMBDA r :
      IF r.st.panic THEN <<Empty, FALSE, TRUE>> ELSE <<r.val, r.found, FALSE>>)

Reads(h, f) == [k \in Keys |-> KVRead(h, f, k)]

NoReads == [k \in Keys |-> <<Empty, FALSE, FALSE>>]

\* what a call showed, beside the master record it found
KVObs(op, key, val, ret, r, pre) ==
    [op |-> op, key |-> key, val |-> val, ret |-> ret, err |-> r.err,
     preMaster |-> file.master, pre |-> pre]

\* the handle and the file after a call that left store r
Done(r) ==
    /\ kv' = [r EXCEPT !.disk = 0]
    /\ file' = r.disk

KVOpen ==
    /\ ~kv.panic
    /\ Bind(Open(Start(kv, file)), LAMBDA r :
         Done(r) /\ obs' = KVObs("Open", Empty, Empty, FALSE, r, NoReads))
    /\ UNCHANGED <<c, fl>>

KVClose ==
    /\ ~kv.panic
    /\ Bind(Close(Start(kv, file)), LAMBDA r :
         Done(r) /\ obs' = KVObs("Close", Empty, Empty, FALSE, r, NoReads))
    /\ UNCHANGED <<c, fl>>

KVGet(key) ==
    /\ ~kv.panic
    /\ Bind(Get(Start(kv, file), key), LAMBDA r :
         Done(r.st) /\ obs' = KVObs("Get", key, r.val, r.found, r.st, NoReads))
    /\ UNCHANGED <<c, fl>>

KVSet(key, val, ord) ==
    /\ ~kv.panic
    /\ Bind(Set(Start(kv, file), key, val, ord), LAMBDA r :
         /\ kv' = [r EXCEPT !.disk = 0]
         /\ file' = IF r.panic \/ r.err # "" THEN r.disk
                    ELSE [r.disk EXCEPT !.ref = [k \in DOMAIN @ \cup {key} |->
                                                  IF k = key THEN val ELSE @[k]]]
         /\ obs' = KVObs("Set", key, val, FALSE, r, Reads(kv, file)))
    /\ UNCHANGED <<c, fl>>

KVDel(key, ord) ==
    /\ ~kv.panic
    /\ Bind(Del(Start(kv, file), key, ord), LAMBDA r :
         /\ kv' = [r.st EXCEPT !.disk = 0]
         /\ file' = IF r.st.panic \/ r.st.err # "" THEN r.st.disk
                    ELSE [r.st.disk EXCEPT !.ref = [k \in DOMAIN @ \ {key} |-> @[k]]]
         /\ obs' = KVObs("Del", key, Empty, r.ret, r.st, Reads(kv, file)))
    /\ UNCHANGED <<c, fl>>

\* the process ends and the next one makes a handle on the same path
KVExit ==
    /\ kv' = NewKV
    /\ obs' = KVObs("Exit", Empty, Empty, FALSE, NewKV, NoReads)
    /\ UNCHANGED <<c, file, fl>>

InitKV ==
    /\ file \in Files
    /\ kv = NewKV
    /\ obs = [op |-> "none", key |-> Empty, val |-> Empty, ret |-> FALSE, err |-> "",
              preMaster |-> NoMaster, pre |-> NoReads]
    /\ c = 0
    /\ fl = 0

NextKV ==
    \/ KVOpen
    \/ KVClose
    \/ \E key \in Keys : KVGet(key)
    \/ \E key \in Keys, val \in Vals, ord \in Orders : KVSet(key, val, ord)
    \/ \E key \in Keys, ord \in Orders : KVDel(key, ord)
    \/ KVExit

SpecKV == InitKV /\ [][NextKV]_vars

----------------------------------------------------------------------------
(* Claims about the KV store (specification SpecKV) *)

\* what the reference map of the path holds for k
FileRef(key) ==
    IF key \in DOMAIN file.ref THEN <<file.ref[key], TRUE, FALSE>>
    ELSE <<Empty, FALSE, FALSE>>

\* C2: an Open of a path that holds what the successful Set and Del calls
\* left there (nothing, when there were none) returns nil and yields a store
\* in which Get returns every key of the reference map with its last value
\* and not-found for every other key.
C2_ReopenReads ==
    (obs.op = "Open" /\ ~file.foreign) =>
        /\ ~kv.panic
        /\ obs.err = ""
        /\ \A k \in Keys : KVRead(kv, file, k) = FileRef(k)

C9_SetDelAtomic ==
    obs.op \in {"Set", "Del"} =>
        /\ ~kv.panic
        /\ \/ obs.err = "" /\ file.master = MasterOf(kv)
           \/ /\ obs.err # ""
              /\ file.master = obs.preMaster
              /\ Reads(kv, file) = obs.pre

\* a file Open is to reject: its size is no multiple of the page size, or
\* it is not empty and its master record has another signature, a page_used
\* of 0 or beyond the file, or a root that is not below page_used
Rejected(f) ==
    /\ f.openable
    /\ \/ f.size % BTREE_PAGE_SIZE # 0
       \/ /\ f.size # 0
          /\ \/ f.master.sig # DB_SIG
             \/ f.master.used = ZeroPtr
             \/ PtrLess(PtrOf(f.size \div BTREE_PAGE_SIZE), f.master.used)
             \/ ~PtrLess(f.master.root, f.master.used)

\* C13: Open returns an error for a file whose size is no multiple of the
\* page size, whose signature differs, whose page_used is 0 or larger than
\* the file, or whose root is >= page_used, and the handle takes no root and
\* no flushed value from the rejected master record.
C13_OpenRejects ==
    (obs.op = "Open" /\ Rejected(file)) =>
        /\ ~kv.panic
        /\ obs.err # ""
        /\ kv.root = ZeroPtr
        /\ kv.flushed = 0

----------------------------------------------------------------------------
(* Free lists under Update, Total and Get.  The lists are drawn from the   *)
(* node format | type | size | total | next | pointers |; their pages lie  *)
(* in the updates map of a wired handle, as pageUse leaves them.           *)

\* the largest popn and topn of the calls
MaxPop == 2

\* db.page.flushed of the handles: the page numbers of the lists and of the
\* calls lie below it
FLFlushed == 11

\* a list node that holds ptrs, as flnSetHeader, flnSetPtr and flnSetTotal
\* are meant to lay it out
FLNode(total, next, ptrs) ==
    flnSetTotal(fillPtrs(putWords(setHeader(NewBuf(BTREE_PAGE_SIZE), 0, Len(ptrs)),
                                  12, next, 1),
                         ptrs, 0, Len(ptrs)),
                PtrOf(total))

\* the list of the nodes ns, last node first: node i lies on page i + 1 and
\* the head is the last of ns; the head holds the total
FLPages(ns, total) ==
    [q \in {PtrOf(i + 1) : i \in 1..Len(ns)} |->
       FLNode(IF PtrInt(q) = Len(ns) + 1 THEN total ELSE 0,
              IF PtrInt(q) = 2 THEN ZeroPtr ELSE PtrOf(PtrInt(q) - 1),
              ns[PtrInt(q) - 1])]

FLStore(ns, total) ==
    [NewKV EXCEPT !.wired = TRUE, !.disk = EmptyFile, !.flushed = FLFlushed,
                  !.head = IF Len(ns) = 0 THEN ZeroPtr ELSE PtrOf(Len(ns) + 1),
                  !.updates = [isNil |-> FALSE, m |-> FLPages(ns, total)]]

\* the free lists of the runs: no list, an empty head node, and lists of
\* one and two nodes whose head counts the free pages
FreeLists ==
    {FLStore(<< >>, 0),
     FLStore(<< << >> >>, 0),
     FLStore(<< <<PtrOf(5)>> >>, 1),
     FLStore(<< <<PtrOf(5), PtrOf(6)>> >>, 2),
     FLStore(<< <<PtrOf(5), PtrOf(6), PtrOf(7)>> >>, 3),
     FLStore(<< << >>, <<PtrOf(7)>> >>, 1),
     FLStore(<< <<PtrOf(5)>>, <<PtrOf(6), PtrOf(7)>> >>, 3),
     FLStore(<< <<PtrOf(5), PtrOf(6)>>, <<PtrOf(7)>> >>, 3)}

\* the freed arguments of the calls
FreedArgs == {<< >>, <<PtrOf(9)>>, <<PtrOf(9), PtrOf(10)>>}

\* what a call showed; `before` is what Total() returned before an Update
\* and `total` what the call itself returned when it is Total
FLObs(op, popn, freed, before, ret) ==
    [op |-> op, popn |-> popn, freed |-> freed, beforePanic |-> before.st.panic,
     before |-> before.total, ret |-> ret]

NoTotal == [st |-> NewKV, total |-> 0]

\* the pointers a list node holds, newest first: index size-1 down to 0
nodeEntries(node) ==
    [i \in 1..flnSize(node) |-> rd64(node, FREE_LIST_HEADER + 8 * (flnSize(node) - i))]

RECURSIVE chainEntries(_, _, _)
\* the entries of the chain of list nodes from page ptr on, by the node
\* format: the next pointer is the 8-byte field at byte 12
chainEntries(m, ptr, fuel) ==
    IF ptr = ZeroPtr \/ fuel = 0 \/ ptr \notin DOMAIN m THEN << >>
    ELSE nodeEntries(m[ptr]) \o chainEntries(m, rd64(m[ptr], 12), fuel - 1)

\* the list read newest first
ListEntries(st) == chainEntries(st.updates.m, st.head, 4)

\* the page numbers Get(0), ..., Get(popn-1) return
TopOf(st, popn) ==
    {g.ptr : g \in {h \in {FLGet(st, i) : i \in 0..(popn - 1)} : ~h.st.panic}}

\* Total() and Get(0), ..., Get(popn-1) before, Update(popn, freed)
FLDoUpdate(popn, freed) ==
    /\ ~fl.panic
    /\ fl' = FLUpdate(fl, popn, freed)
    /\ obs' = FLObs("Update", popn, freed, FLTotal(fl), ZeroPtr)
               @@ [top |-> TopOf(fl, popn)]
    /\ UNCHANGED <<c, kv, file>>

FLDoTotal ==
    /\ ~fl.panic
    /\ Bind(FLTotal(fl), LAMBDA t :
         /\ fl' = t.st
         /\ obs' = FLObs("Total", 0, << >>, NoTotal, PtrOf(t.total)))
    /\ UNCHANGED <<c, kv, file>>

FLDoGet(topn) ==
    /\ ~fl.panic
    /\ Bind(FLGet(fl, topn), LAMBDA g :
         /\ fl' = g.st
         /\ obs' = FLObs("Get", topn, << >>, NoTotal, g.ptr))
    /\ UNCHANGED <<c, kv, file>>

\* the nodes given to pageNew: the first root leaf of BTree.Insert
NewNodes ==
    {nodeAppendKV(nodeAppendKV(setHeader(NewBuf(BTREE_PAGE_SIZE), BNODE_LEAF, 2),
                               0, ZeroPtr, Empty, Empty),
                  1, ZeroPtr, Bytes(b, 1), Bytes(7, 70)) : b \in 1..NumKeyBytes}

\* the runs of one to MaxPop of these nodes
SeqsOfNodes == UNION {[1..m -> NewNodes] : m \in 1..MaxPop}

\* pageNew(node); the list and the counters as the call found them
FLDoPageNew(node) ==
    /\ ~fl.panic
    /\ fl.nfree + fl.nappend < MaxPop
    /\ Bind(pageNew(fl, node), LAMBDA a :
         /\ fl' = a.st
         /\ obs' = [op |-> "pageNew", node |-> node, ret |-> a.ptr,
                    entries |-> ListEntries(fl), head |-> fl.head,
                    nfree |-> fl.nfree, nappend |-> fl.nappend])
    /\ UNCHANGED <<c, kv, file>>

InitFL ==
    /\ fl \in FreeLists
    /\ obs = FLObs("none", 0, << >>, NoTotal, ZeroPtr)
    /\ c = 0
    /\ kv = 0
    /\ file = 0

NextFL ==
    \/ \E popn \in 0..MaxPop, freed \in FreedArgs : FLDoUpdate(popn, freed)
    \/ FLDoTotal
    \/ \E topn \in 0..MaxPop : FLDoGet(topn)
    \/ \E node \in NewNodes : FLDoPageNew(node)

SpecFL == InitFL /\ [][NextFL]_vars

----------------------------------------------------------------------------
(* Claims about the free list (specification SpecFL) *)

\* C10: a call Update(popn, freed) with popn <= Total() returns, and Total()
\* after it is Total() before it minus popn plus the number of page numbers
\* in freed.
C10_UpdateTotal ==
    (obs.op = "Update" /\ ~obs.beforePanic /\ obs.popn <= obs.before) =>
        /\ ~fl.panic
        /\ Bind(FLTotal(fl), LAMBDA t :
             /\ ~t.st.panic
             /\ t.total = obs.before - obs.popn + Len(obs.freed))

\* C12: for every topn below the number of entries of the list, Get(topn)
\* returns the topn-th entry of the list read newest first (the head node's
\* pointers from the last to the first, then the next node's, and so on).
C12_GetNewestFirst ==
    (obs.op = "Get" /\ obs.popn < Len(ListEntries(fl))) =>
        /\ ~fl.panic
        /\ obs.ret = ListEntries(fl)[obs.popn + 1]

\* the page numbers stored in the list
Stored(st) == {ListEntries(st)[i] : i \in 1..Len(ListEntries(st))}

\* C25: for every popn <= Total() and every freed list (possibly empty), after
\* Update(popn, freed) none of the popn page numbers that Get(0), ...,
\* Get(popn-1) returned before the call is stored in the list, and every page
\* number of freed is stored in the list.
C25_UpdatePopsAndPushes ==
    (obs.op = "Update" /\ ~obs.beforePanic /\ obs.popn <= obs.before) =>
        /\ ~fl.panic
        /\ obs.top \cap Stored(fl) = {}
        /\ \A i \in 1..Len(obs.freed) : obs.freed[i] \in Stored(fl)

\* C26: for a free list as Update is to leave it, Total() returns the value
\* of the total field of the head list-node, and that value is the number of
\* free page pointers stored across all list nodes of the chain.
C26_TotalIsHeadTotal ==
    (obs.op = "Total" /\ fl.head # ZeroPtr) =>
        /\ ~fl.panic
        /\ obs.ret = rd64(fl.updates.m[fl.head], 4)
        /\ PtrInt(obs.ret) = Len(ListEntries(fl))

\* C27: pageNew(node) takes ptr = free.Get(nfree) and increments nfree when
\* nfree is below the number of free pages of the list, and otherwise takes
\* ptr = flushed + nappend and increments nappend; in both cases it records
\* updates[ptr] = node.data.  With an empty free list (head = 0) every
\* allocation is an append at flushed + nappend.
C27_PageNew ==
    obs.op = "pageNew" =>
        /\ ~fl.panic
        /\ IF obs.nfree < Len(obs.entries)
           THEN /\ obs.ret = obs.entries[obs.nfree + 1]
                /\ fl.nfree = obs.nfree + 1
                /\ fl.nappend = obs.nappend
           ELSE /\ obs.ret = PtrOf(fl.flushed + obs.nappend)
                /\ fl.nfree = obs.nfree
                /\ fl.nappend = obs.nappend + 1
        /\ obs.ret \in DOMAIN fl.updates.m
        /\ fl.updates.m[obs.ret] = obs.node

----------------------------------------------------------------------------
(* Commits of a handle that holds dirty pages.  The handle is what the     *)
(* assignments of Open and masterLoad make of a database file, with the    *)
(* page images that allocations recorded in db.page.updates at the page    *)
(* numbers flushed, flushed + 1, ...                                       *)

\* a database file of filePages pages whose master record counts `used`
\* pages; a file of no pages has no master record
PagesFile(filePages, used) ==
    [EmptyFile EXCEPT
       !.size = filePages * BTREE_PAGE_SIZE,
       !.master = IF filePages = 0 THEN NoMaster
                  ELSE [sig |-> DB_SIG, root |-> ZeroPtr, used |-> PtrOf(used),
                        head |-> ZeroPtr]]

\* the handle over that file with the images `dirty` appended and the page
\* numbers of `gone` deallocated
DirtyHandle(filePages, used, dirty, gone) ==
    [NewKV EXCEPT
       !.disk = PagesFile(filePages, used),
       !.fp = "open",
       !.mmapFile = filePages * BTREE_PAGE_SIZE,
       !.mmapTotal = MMAP_INIT,
       !.chunks = <<MMAP_INIT>>,
       !.wired = TRUE,
       !.flushed = used,
       !.nappend = Len(dirty),
       !.updates =
          [isNil |-> FALSE,
           m |-> [q \in {PtrOf(used + i - 1) : i \in 1..Len(dirty)} \cup gone |->
                    IF q \in gone THEN NilNode ELSE dirty[PtrInt(q) - used + 1]]]]

\* <<pages of the file, flushed>>: a new file, a file that ends at flushed,
\* and files that were grown one and three pages past flushed
PageCounts == {<<0, 1>>, <<2, 2>>, <<18, 17>>, <<20, 17>>}

\* the handles of the runs: up to MaxPop appended pages and at most one
\* deallocated page
DirtyHandles ==
    UNION {{DirtyHandle(pc[1], pc[2], dirty, gone) :
              dirty \in {<< >>} \cup SeqsOfNodes,
              gone \in IF pc[2] > 1 THEN {{}, {PtrOf(1)}} ELSE {{}}} :
           pc \in PageCounts}

PagesObs(op, ord) ==
    [op |-> op, ord |-> ord, flushed |-> kv.flushed, nappend |-> kv.nappend,
     updates |-> kv.updates.m]

\* writePages alone: the first half of a commit
DoWritePages(ord) ==
    /\ obs.op = "none"
    /\ kv' = writePages(Start(kv, kv.disk), ord)
    /\ obs' = PagesObs("writePages", ord)
    /\ UNCHANGED <<c, file, fl>>

\* flushPages: a whole commit
DoFlushPages(ord) ==
    /\ obs.op \in {"none", "flushPages"}
    /\ ~kv.panic
    /\ kv.err = ""
    /\ kv.flushed < 2 * FLFlushed
    /\ kv' = flushPages(Start(kv, kv.disk), ord)
    /\ obs' = PagesObs("flushPages", ord)
    /\ UNCHANGED <<c, file, fl>>

\* a page image recorded between two commits, as pageAppend records it
DoPageAppend(node) ==
    /\ obs.op = "flushPages"
    /\ ~kv.panic
    /\ kv.err = ""
    /\ DOMAIN kv.updates.m = {}
    /\ kv' = pageAppend(kv, node).st
    /\ obs' = [obs EXCEPT !.op = "none"]
    /\ UNCHANGED <<c, file, fl>>

InitPages ==
    /\ kv \in DirtyHandles
    /\ obs = [op |-> "none", ord |-> "asc", flushed |-> kv.flushed,
              nappend |-> kv.nappend, updates |-> kv.updates.m]
    /\ c = 0
    /\ file = 0
    /\ fl = 0

NextPages ==
    \/ \E ord \in Orders : DoWritePages(ord)
    \/ \E ord \in Orders : DoFlushPages(ord)
    \/ \E node \in NewNodes : DoPageAppend(node)

SpecPages == InitPages /\ [][NextPages]_vars

----------------------------------------------------------------------------
(* Claims about the commit of dirty pages (specification SpecPages) *)

\* the page numbers that held an image when the commit began
Dirty(m) == {q \in DOMAIN m : m[q] # NilNode}

\* C29: in every commit, before any dirty page image is copied, the file and
\* the mapping have been extended to at least flushed + nappend pages, so
\* every page number with a non-null image in updates is below the file size
\* in pages and below the mapped size in pages when it is copied.
C29_ExtendedBeforeCopy ==
    (/\ obs.op = "writePages"
     /\ Len(kv.log) > 0
     /\ kv.log[Len(kv.log)] = "copy"
     /\ Dirty(obs.updates) # {}) =>
        /\ ~kv.panic
        /\ kv.mmapFile >= (obs.flushed + obs.nappend) * BTREE_PAGE_SIZE
        /\ kv.mmapTotal >= (obs.flushed + obs.nappend) * BTREE_PAGE_SIZE
        /\ \A q \in Dirty(obs.updates) :
             /\ PtrInt(q) < kv.mmapFile \div BTREE_PAGE_SIZE
             /\ PtrInt(q) < kv.mmapTotal \div BTREE_PAGE_SIZE

\* C30: after every successful commit the updates map is empty and
\* nfree = 0 and nappend = 0, so the next transaction allocates from the
\* newest entry of the free list and from page number flushed.
C30_CommitResets ==
    (obs.op = "flushPages" /\ ~kv.panic /\ kv.err = "") =>
        /\ ~kv.updates.isNil
        /\ DOMAIN kv.updates.m = {}
        /\ kv.nfree = 0
        /\ kv.nappend = 0

\* the master record passes the validation of masterLoad over a file of
\* filePages pages
MasterValid(master, filePages) ==
    /\ master.sig = DB_SIG
    /\ PtrLess(ZeroPtr, master.used)
    /\ ~PtrLess(PtrOf(filePages), master.used)
    /\ PtrLess(master.root, master.used)

\* C31: after every successful commit, the page_used value stored in the
\* master page (flushed) is one past the largest page number ever written to
\* the file and is not larger than the file size in pages, so the master
\* page passes the validation that Open applies.
C31_PageUsed ==
    (obs.op = "flushPages" /\ ~kv.panic /\ kv.err = "") =>
        /\ kv.disk.master.used = PtrOf(kv.flushed)
        /\ kv.flushed = Max({obs.flushed} \cup
                            {PtrInt(q) + 1 : q \in Dirty(obs.updates)})
        /\ kv.flushed <= kv.disk.size \div BTREE_PAGE_SIZE
        /\ MasterValid(kv.disk.master, kv.disk.size \div BTREE_PAGE_SIZE)

----------------------------------------------------------------------------
(* nodeSplit3 and nodeReplace2Kid on node images.  An entry is the tuple   *)
(* <<pointer, key, value>>; the images are laid out by setHeader and       *)
(* nodeAppendKV as the tree lays them out.                                 *)

\* the most keys after the first of an internal node image
MaxKids == 5

RECURSIVE appendAll(_, _, _)
\* nodeAppendKV of the entries es[i..] at the indexes i-1..
appendAll(node, es, i) ==
    IF i > Len(es) THEN node
    ELSE appendAll(nodeAppendKV(node, i - 1, es[i][1], es[i][2], es[i][3]), es, i + 1)

\* the node of type t that holds the entries es in a buffer of cap bytes
MkNode(t, cap, es) == appendAll(setHeader(NewBuf(cap), t, Len(es)), es, 1)

RECURSIVE entriesSize(_, _)
\* the bytes the KV pairs of es[i..] take
entriesSize(es, i) ==
    IF i > Len(es) THEN 0
    ELSE 4 + BLen(es[i][2]) + BLen(es[i][3]) + entriesSize(es, i + 1)

\* nbytes() of the node that holds es
sizeOf(es) == HEADER + 8 * Len(es) + 2 * Len(es) + entriesSize(es, 1)

\* es without its i-th entry
Without(es, i) == SubSeq(es, 1, i - 1) \o SubSeq(es, i + 1, Len(es))

\* es is what one insertion makes of a node that fitted in a page: it takes
\* at most two pages, and without one of its entries it fits in one
OneInsertion(es) ==
    /\ sizeOf(es) <= 2 * BTREE_PAGE_SIZE
    /\ \E i \in 1..Len(es) : sizeOf(Without(es, i)) <= BTREE_PAGE_SIZE

\* the sizes <<klen, vlen>> of the pairs of the leaves
PairSizes == {<<1, 70>>, <<1, 2000>>, <<BTREE_MAX_KEY_SIZE, BTREE_MAX_VAL_SIZE>>}

\* the entries of a leaf: the sentinel, then pair i with the key of bytes i
LeafEntries(sz) ==
    <<<<ZeroPtr, Empty, Empty>>>> \o
    [i \in 1..Len(sz) |-> <<ZeroPtr, Bytes(i, sz[i][1]), Bytes(7, sz[i][2])>>]

\* the entries of an internal node: kid i on page 10+i with its first key
KidEntries(kl) ==
    <<<<PtrOf(10), Empty, Empty>>>> \o
    [i \in 1..Len(kl) |-> <<PtrOf(10 + i), Bytes(i, kl[i]), Empty>>]

\* sequences of length 1..n over S
SeqsUpTo(S, n) == UNION {[1..m -> S] : m \in 1..n}

\* the leaf and internal images given to nodeSplit3, in the buffer of
\* treeInsert
SplitInputs ==
    {MkNode(BNODE_LEAF, 2 * BTREE_PAGE_SIZE, LeafEntries(sz)) :
       sz \in {q \in SeqsUpTo(PairSizes, 3) : OneInsertion(LeafEntries(q))}}
    \cup
    {MkNode(BNODE_NODE, 2 * BTREE_PAGE_SIZE, KidEntries(kl)) :
       kl \in {q \in SeqsUpTo({1, BTREE_MAX_KEY_SIZE}, MaxKids) :
                 OneInsertion(KidEntries(q))}}

\* the internal nodes given to nodeReplace2Kid: pages of two to four kids
ReplaceInputs ==
    {MkNode(BNODE_NODE, BTREE_PAGE_SIZE, KidEntries(kl)) :
       kl \in SeqsUpTo({1, BTREE_MAX_KEY_SIZE}, 3)}

\* the entry at idx of a node, or <<"panic">> when getKey or getVal panics
EntryAt(node, idx) ==
    IF node.panic \/ ~ptrOk(node, idx) \/ ~getKeyOk(node, idx) \/ ~getValOk(node, idx)
    THEN <<"panic">>
    ELSE <<getPtr(node, idx), Norm(getKey(node, idx)), Norm(getVal(node, idx))>>

\* the entries of a node in order
EntriesOf(node) == [i \in 1..node.nkeys |-> EntryAt(node, i - 1)]

RECURSIVE Concat(_, _)
\* the entries of the pieces ps[i..] in piece order
Concat(ps, i) ==
    IF i > Len(ps) THEN << >> ELSE EntriesOf(ps[i]) \o Concat(ps, i + 1)

NodeObs(op, node, idx, out) == [op |-> op, node |-> node, idx |-> idx, out |-> out]

\* nodeSplit3(old)
DoSplit3 ==
    /\ obs.op = "old"
    /\ obs' = NodeObs("nodeSplit3", obs.node, 0, nodeSplit3(obs.node))
    /\ UNCHANGED <<c, kv, file, fl>>

\* nodeReplace2Kid(new, old, idx, ptr, key) with the new page of nodeDelete,
\* the pointer of the merged kid and its first key
DoReplace2Kid ==
    /\ obs.op = "node"
    /\ obs' = NodeObs("nodeReplace2Kid", obs.node, obs.idx,
                      <<nodeReplace2Kid(NewBuf(BTREE_PAGE_SIZE), obs.node, obs.idx,
                                        PtrOf(99), getKey(obs.node, obs.idx))>>)
    /\ UNCHANGED <<c, kv, file, fl>>

\* a leaf of n bytes: the sentinel and one or two pairs
LeafOfSize(n) ==
    MkNode(BNODE_LEAF, BTREE_PAGE_SIZE,
           LeafEntries(IF n <= 2033 THEN <<<<1, n - 33>>>>
                       ELSE <<<<1, 2000>>, <<1, n - 2048>>>>))

\* nbytes() of the siblings and of the updated kid given to shouldMerge: on
\* both sides of the quarter page and of the page for the merged node
SiblingSizes == {103, 3076, 3077, 3998}

UpdatedSizes == {103, 1024, 1025}

\* the harness store whose pages 10, 11, 12 hold the kids
KidStore(kids) ==
    [newC(<<0, 1, 192, 0>>) EXCEPT
       !.pages = [q \in {PtrOf(9 + i) : i \in 1..Len(kids)} |-> kids[q[1] - 9]]]

MergeObs(op, kids, idx, updated, out) ==
    [op |-> op, node |-> MkNode(BNODE_NODE, BTREE_PAGE_SIZE, KidEntries(<<1, 1>>)),
     kids |-> kids, idx |-> idx, updated |-> updated, out |-> out]

\* shouldMerge(tree, node, idx, updated) as nodeDelete calls it
DoShouldMerge ==
    /\ obs.op = "kids"
    /\ obs' = MergeObs("shouldMerge", obs.kids, obs.idx, obs.updated,
                       shouldMerge(KidStore(obs.kids), obs.node, obs.idx, obs.updated))
    /\ UNCHANGED <<c, kv, file, fl>>

\* the keys of the looked-up nodes in increasing order
LookupKeys == <<Bytes(1, 1), Bytes(1, 2), Bytes(2, 1)>>

\* the nodes given to nodeLookupLE: a first key, the sentinel or the copy
\* of a key of the parent, then some of LookupKeys in order
LookupInputs ==
    {MkNode(t, BTREE_PAGE_SIZE,
            <<<<ZeroPtr, first, Empty>>>> \o
            [i \in 1..Len(ks) |-> <<ZeroPtr, ks[i], Empty>>]) :
       t \in {BNODE_NODE, BNODE_LEAF},
       first \in {Empty, Bytes(1, 2), Bytes(3, 1)},
       ks \in {SelectSeq(LookupKeys, LAMBDA k : k \in S) :
                 S \in SUBSET {LookupKeys[i] : i \in 1..Len(LookupKeys)}}}

\* the keys looked up: below, between, on and above the keys of the nodes
LookupArgs == {Empty, Bytes(1, 1), Bytes(1, 2), Bytes(1, 3), Bytes(2, 1), Bytes(3, 1)}

\* nodeLookupLE(node, key)
DoLookup ==
    /\ obs.op = "lookup"
    /\ obs' = [obs EXCEPT !.op = "nodeLookupLE",
                          !.out = nodeLookupLE(obs.node, obs.key)]
    /\ UNCHANGED <<c, kv, file, fl>>

\* the calls on list nodes: a zeroed page and a node of two entries; sizes
\* and 64-bit values up to the largest; the first, second and last slot
FlnInputs ==
    [node : {NewBuf(BTREE_PAGE_SIZE), FLNode(2, PtrOf(3), <<PtrOf(8), PtrOf(9)>>)},
     size : {0, 1, FREE_LIST_CAP, 65535},
     val : {ZeroPtr, PtrOf(7), <<65535, 65535, 65535, 65535>>},
     idx : {0, 1, FREE_LIST_CAP - 1}]

\* flnSetHeader(node, size, next)
DoFlnSetHeader ==
    /\ obs.op = "fln"
    /\ obs' = [obs EXCEPT !.op = "flnSetHeader",
                          !.out = flnSetHeader(obs.node, obs.size, obs.val)]
    /\ UNCHANGED <<c, kv, file, fl>>

\* flnSetPtr(node, idx, ptr)
DoFlnSetPtr ==
    /\ obs.op = "fln"
    /\ obs' = [obs EXCEPT !.op = "flnSetPtr",
                          !.out = flnSetPtr(obs.node, obs.idx, obs.val)]
    /\ UNCHANGED <<c, kv, file, fl>>

\* flnSetTotal(node, total)
DoFlnSetTotal ==
    /\ obs.op = "fln"
    /\ obs' = [obs EXCEPT !.op = "flnSetTotal",
                          !.out = flnSetTotal(obs.node, obs.val)]
    /\ UNCHANGED <<c, kv, file, fl>>

\* the leaves given to leafInsert: every run of entries of a leaf that nearly
\* fills its page, the leaf without entries included
LeafInsertInputs ==
    {MkNode(BNODE_LEAF, BTREE_PAGE_SIZE,
            SubSeq(LeafEntries(<<<<1, 70>>, <<2, 0>>, <<BTREE_MAX_KEY_SIZE, 2900>>>>),
                   a, b)) : a \in 1..4, b \in 0..4}

\* leafInsert(new, old, idx, key, val) with the new buffer of treeInsert
DoLeafInsert ==
    /\ obs.op = "leaf"
    /\ obs' = [obs EXCEPT !.op = "leafInsert",
                          !.out = leafInsert(NewBuf(2 * BTREE_PAGE_SIZE), obs.node,
                                             obs.idx, obs.key, obs.val)]
    /\ UNCHANGED <<c, kv, file, fl>>

InitNode ==
    /\ \/ \E old \in SplitInputs : obs = NodeObs("old", old, 0, << >>)
       \/ \E old \in LeafInsertInputs : \E idx \in 0..old.nkeys :
            \E key \in {Bytes(9, 1), Bytes(9, BTREE_MAX_KEY_SIZE)} :
              \E val \in {Empty, Bytes(5, BTREE_MAX_VAL_SIZE)} :
                obs = [op |-> "leaf", node |-> old, idx |-> idx, key |-> key,
                       val |-> val, out |-> old]
       \/ \E in \in FlnInputs : obs = [op |-> "fln", out |-> in.node] @@ in
       \/ \E node \in LookupInputs, key \in LookupArgs :
            obs = [op |-> "lookup", node |-> node, key |-> key, out |-> 0]
       \/ \E node \in ReplaceInputs : \E idx \in 0..(node.nkeys - 2) :
            obs = NodeObs("node", node, idx, << >>)
       \/ \E l, r \in SiblingSizes : \E u \in UpdatedSizes : \E idx \in 0..2 :
            obs = MergeObs("kids",
                           <<LeafOfSize(l), LeafOfSize(IF idx = 1 THEN u ELSE l),
                             LeafOfSize(r)>>,
                           idx, LeafOfSize(u), << >>)
    /\ c = 0
    /\ kv = 0
    /\ file = 0
    /\ fl = 0

NextNode ==
    \/ DoSplit3
    \/ DoReplace2Kid
    \/ DoShouldMerge
    \/ DoLookup
    \/ DoFlnSetHeader
    \/ DoFlnSetPtr
    \/ DoFlnSetTotal
    \/ DoLeafInsert

SpecNode == InitNode /\ [][NextNode]_vars

----------------------------------------------------------------------------
(* Claims about nodeSplit3 and nodeReplace2Kid (specification SpecNode) *)

\* C18: for a node image of at most two pages made by one insertion into a
\* node that fitted in a page, nodeSplit3 returns 1, 2 or 3 pieces, every
\* piece has nbytes() <= BTREE_PAGE_SIZE, and it returns exactly 1 piece when
\* the input already has nbytes() <= BTREE_PAGE_SIZE.
C18_Split3Fits ==
    obs.op = "nodeSplit3" =>
        /\ Len(obs.out) \in 1..3
        /\ \A i \in 1..Len(obs.out) :
             ~obs.out[i].panic /\ nbytes(obs.out[i]) <= BTREE_PAGE_SIZE
        /\ (nbytes(obs.node) <= BTREE_PAGE_SIZE => Len(obs.out) = 1)

\* C19: for an oversized node given to nodeSplit3, every piece has at least
\* one entry and the type of the input, and the entries of the pieces in
\* piece order are the entries of the input in order.
C19_Split3KeepsEntries ==
    (obs.op = "nodeSplit3" /\ nbytes(obs.node) > BTREE_PAGE_SIZE) =>
        /\ \A i \in 1..Len(obs.out) :
             /\ ~obs.out[i].panic
             /\ obs.out[i].nkeys >= 1
             /\ obs.out[i].btype = obs.node.btype
        /\ Concat(obs.out, 1) = EntriesOf(obs.node)

\* C20: nodeReplace2Kid(new, old, i, ptr, key) with i+1 < old.nkeys makes an
\* internal node of old.nkeys-1 entries: old's entries 0..i-1, then
\* (ptr, key), then old's entries i+2.. in order.
C20_Replace2Kid ==
    obs.op = "nodeReplace2Kid" =>
        /\ ~obs.out[1].panic
        /\ obs.out[1].btype = BNODE_NODE
        /\ obs.out[1].nkeys = obs.node.nkeys - 1
        /\ EntriesOf(obs.out[1]) =
             SubSeq(EntriesOf(obs.node), 1, obs.idx)
             \o <<<<PtrOf(99), Norm(getKey(obs.node, obs.idx)), Empty>>>>
             \o SubSeq(EntriesOf(obs.node), obs.idx + 3, obs.node.nkeys)

\* the sibling at idx of the parent of DoShouldMerge fits with the updated kid
FitsWith(idx) ==
    /\ idx >= 0
    /\ idx < obs.node.nkeys
    /\ nbytes(obs.kids[idx + 1]) + nbytes(obs.updated) - HEADER <= BTREE_PAGE_SIZE

\* C21: shouldMerge(node, i, updated) returns no-merge when updated.nbytes()
\* is more than a quarter page; otherwise merge-left with the left sibling
\* when i > 0 and the two fit in a page without one header; otherwise
\* merge-right with the right sibling when i+1 < nkeys and the two fit;
\* otherwise no-merge.  Left is preferred when both siblings fit.
C21_ShouldMerge ==
    obs.op = "shouldMerge" =>
        /\ ~obs.out.st.panic
        /\ IF nbytes(obs.updated) > BTREE_PAGE_SIZE \div 4
           THEN obs.out.dir = 0 /\ obs.out.sibling = NilNode
           ELSE IF FitsWith(obs.idx - 1)
           THEN obs.out.dir = -1 /\ obs.out.sibling = obs.kids[obs.idx]
           ELSE IF FitsWith(obs.idx + 1)
           THEN obs.out.dir = 1 /\ obs.out.sibling = obs.kids[obs.idx + 2]
           ELSE obs.out.dir = 0 /\ obs.out.sibling = NilNode

\* shouldMerge chose the left sibling although the right one fits as well,
\* with a merged node of exactly one page
C21_Witness ==
    /\ obs.op = "shouldMerge"
    /\ obs.idx = 1
    /\ FitsWith(0)
    /\ FitsWith(2)
    /\ nbytes(obs.kids[1]) + nbytes(obs.updated) - HEADER = BTREE_PAGE_SIZE
    /\ obs.out.dir = -1

\* C33: for a node whose keys from index 1 on increase and every key,
\* nodeLookupLE returns the largest index i in 1..nkeys-1 with
\* keys[i] <= key, and 0 when there is none; the key at index 0 is never
\* compared.
C33_LookupLE ==
    obs.op = "nodeLookupLE" =>
        obs.out = Max({0} \cup {i \in 1..(obs.node.nkeys - 1) :
                                  Compare(getKey(obs.node, i), obs.key) <= 0})

\* a lookup that passed a key at index 0 above the looked-up key and found
\* a later index
C33_Witness ==
    /\ obs.op = "nodeLookupLE"
    /\ Compare(getKey(obs.node, 0), obs.key) > 0
    /\ obs.out = 2
    /\ obs.node.nkeys = 4

\* C38: on a list node, flnSetHeader(node, size, next) followed by flnSize
\* and flnNext returns size and next for every 16-bit size and 64-bit next;
\* flnSetPtr(node, i, p) followed by flnPtr(node, i) returns p; flnSetTotal
\* changes neither size, next nor any pointer.
C38_FlnCodec ==
    /\ obs.op = "flnSetHeader" =>
          /\ ~obs.out.panic
          /\ flnSizeOk(obs.out) /\ flnSize(obs.out) = obs.size
          /\ flnNextOk(obs.out) /\ flnNext(obs.out) = obs.val
    /\ obs.op = "flnSetPtr" =>
          /\ ~obs.out.panic
          /\ flnPtrOk(obs.out, obs.idx) /\ flnPtr(obs.out, obs.idx) = obs.val
    /\ obs.op = "flnSetTotal" =>
          /\ ~obs.out.panic
          /\ flnSize(obs.out) = flnSize(obs.node)
          /\ rd64(obs.out, 12) = rd64(obs.node, 12)
          /\ \A i \in 0..(FREE_LIST_CAP - 1) : flnPtr(obs.out, i) = flnPtr(obs.node, i)

\* C39: for every leaf old and every idx <= old.nkeys, leafInsert(new, old,
\* idx, key, val) yields a leaf with old.nkeys + 1 entries in which entry idx
\* is (key, val), entries 0..idx-1 equal old's entries 0..idx-1 and entries
\* idx+1.. equal old's entries idx.. in order.  new and old are distinct
\* buffers, so old keeps its header and entries.
C39_LeafInsert ==
    obs.op = "leafInsert" =>
        /\ ~obs.out.panic
        /\ obs.out.btype = BNODE_LEAF
        /\ obs.out.nkeys = obs.node.nkeys + 1
        /\ EntriesOf(obs.out) =
             SubSeq(EntriesOf(obs.node), 1, obs.idx)
               \o <<<<ZeroPtr, Norm(obs.key), Norm(obs.val)>>>>
               \o SubSeq(EntriesOf(obs.node), obs.idx + 1, obs.node.nkeys)

\* a pair went into the middle of a leaf of four entries and made an image
\* larger than a page
C39_Witness ==
    /\ obs.op = "leafInsert"
    /\ ~obs.out.panic
    /\ obs.node.nkeys = 4
    /\ obs.idx = 2
    /\ obs.out.nkeys = 5
    /\ nbytes(obs.out) > BTREE_PAGE_SIZE

====
